---- MODULE Spec2Model ----
(***************************************************************************)
(* pydantic-odm: the document-backed model mixin (DBPydanticMixin), the    *)
(* MongoDB encoder and decoder, the collection they talk to, and the       *)
(* connection registry (MongoDBManager).                                   *)
(*                                                                         *)
(* Python values are tagged records, one field name per Python type, so    *)
(* that values of different types are unequal (as in Python) and never     *)
(* compared field by field.  A Python dict is Dict(f) with f a function    *)
(* from its keys, a Python list is List(s) with s a sequence.              *)
(***************************************************************************)
EXTENDS Integers, Sequences, FiniteSets, TLC

VARIABLES
    self,        \* the instance's field values (its __dict__ without _doc)
    _doc,        \* the instance's snapshot, BaseDBMixin._doc
    collection,  \* the store's collection: its documents in insertion order
    issued,      \* how many ObjectIds the store has issued
    calls,       \* what the last operation called, in order
    result,      \* the last operation: its name, arguments, exception, value
    synced,      \* the field values when the instance last agreed with the store
    Config,      \* the model class's Config: its database alias and collection name
    hook,        \* which pre_save_validation the model class has
    fault,       \* what the store does with the next round trip
    _instance,   \* MongoDBManagerMeta._instance
    connections, \* MongoDBManager.connections: alias -> client
    databases,   \* MongoDBManager.databases: alias -> database
    clients,     \* how many AsyncIOMotorClient objects were created
    constructed, \* how many MongoDBManager objects were created
    threads,     \* each thread's place in MongoDBManagerMeta.__call__
    _lock,       \* MongoDBManagerMeta._lock: the thread that holds it, or None
    steps,       \* a document and what the passes applied to it returned
    passes,      \* the passes applied to the document, in order
    tasks,       \* each task's place in a save() of the one instance
    heap         \* the mappings and lists of a caller, each at its address

vars == <<self, _doc, collection, issued, calls, result, synced,
          Config, hook, fault, _instance, connections, databases, clients,
          constructed, threads, _lock, steps, passes, tasks, heap>>

\* The model class and the store's behaviour, as the operations find them.
env == <<Config, hook, fault>>

\* The singleton and the class-level dicts of MongoDBManager.
registry == <<_instance, connections, databases, clients, constructed>>

\* The threads inside MongoDBManagerMeta.__call__, and the document the
\* encoder and the decoder are applied to.
apart == <<threads, _lock, steps, passes, tasks, heap>>

\* How many threads construct managers, and how many passes are applied to
\* a document.
NThreads == 2
MaxPasses == 3

Threads == 1..NThreads

\* The tasks of the event loop that call save() on the one instance.
Tasks == {"first", "second"}

\* The store issues at most MaxOid identities.
MaxOid == 2

(***************************************************************************)
(* Values                                                                  *)
(***************************************************************************)
None == [none |-> TRUE]
Str(s) == [str |-> s]
IntV(i) == [int |-> i]
ObjectId(n) == [oid |-> n]
EnumMember(n) == [enum |-> n]
Decimal(s) == [decimal |-> s]
Decimal128(s) == [decimal128 |-> s]
Dict(f) == [dict |-> f]
List(s) == [list |-> s]
\* A pydantic BaseModel instance with the field values f.
Model(f) == [model |-> f]

NoItems == [k \in {} |-> None]
EmptyDict == Dict(NoItems)

IsDict(v) == "dict" \in DOMAIN v
IsList(v) == "list" \in DOMAIN v
IsEnum(v) == "enum" \in DOMAIN v
IsDecimal(v) == "decimal" \in DOMAIN v
IsModel(v) == "model" \in DOMAIN v

\* tests/mixins.py UserTypesEnum: the members and their values.
UserTypesEnum == [Admin |-> Str("admin"), Reader |-> Str("reader")]

\* Python truth value, as tested by "if not self.id", "if _doc", "if updated".
Truthy(v) ==
    /\ v # None
    /\ v # EmptyDict
    /\ v # List(<<>>)
    /\ v # Str("")
    /\ v # IntV(0)

\* dict operations
Keys(d) == DOMAIN d.dict
Get(d, k) == IF k \in Keys(d) THEN d.dict[k] ELSE None
Update(d, e) ==
    Dict([k \in Keys(d) \cup Keys(e) |->
            IF k \in Keys(e) THEN e.dict[k] ELSE d.dict[k]])
Without(d, ks) == Dict([k \in Keys(d) \ ks |-> d.dict[k]])
Only(d, ks) == Dict([k \in Keys(d) \cap ks |-> d.dict[k]])

(***************************************************************************)
(* encoders/mongodb.py                                                     *)
(***************************************************************************)
\* An enumeration whose members have values the encoder deals with: a
\* Decimal, a member of another enumeration, a list that holds members, a
\* mapping that holds a Decimal.
ValueTypesEnum ==
    [Price |-> Decimal("13.37"),
     Alias |-> EnumMember("Admin"),
     Roles |-> List(<<EnumMember("Admin"), EnumMember("Reader")>>),
     Prices |-> Dict([amount |-> Decimal("13.37")])]

\* "value.value" of an enum member.
member_value(member) == (UserTypesEnum @@ ValueTypesEnum)[member.enum]

\* The member replaced by its name.
enum_to_name(value) ==
    IF IsEnum(value) THEN Str(value.enum) ELSE value

enum_to_value(value) ==
    IF IsEnum(value) THEN member_value(value) ELSE value

python_decimal_to_bson_decimal(value) ==
    IF IsDecimal(value) THEN Decimal128(value.decimal) ELSE value

\* transform_func is passed by name.
transform_func(name, value) ==
    IF name = "enum_to_value" THEN enum_to_value(value)
    ELSE python_decimal_to_bson_decimal(value)

RECURSIVE _recursive_iterator(_, _)
_recursive_iterator(data, name) ==
    LET item(value) ==
            LET v == transform_func(name, value)
            IN  IF IsDict(v) \/ IsList(v) THEN _recursive_iterator(v, name) ELSE v
    IN  IF IsDict(data)
        THEN Dict([k \in Keys(data) |-> item(data.dict[k])])
        ELSE List([i \in DOMAIN data.list |-> item(data.list[i])])

_convert_enums(data) == _recursive_iterator(data, "enum_to_value")

_convert_decimals(data) == _recursive_iterator(data, "python_decimal_to_bson_decimal")

BaseMongoDBEncoder(data) == _convert_decimals(_convert_enums(data))

(***************************************************************************)
(* decoders/mongodb.py                                                     *)
(***************************************************************************)
\* The identity taken from "id" when the mapping has one.
pop_id_first(data) ==
    IF "id" \in Keys(data) THEN Get(data, "id") ELSE Get(data, "_id")

\* "document_id = data.pop("_id", None)"
pop__id(data) == Get(data, "_id")

RECURSIVE BaseMongoDBDecoder(_)
BaseMongoDBDecoder(data) ==
    LET rest == Without(data, {"id", "_id"})
        item(v) == IF IsDict(v) THEN BaseMongoDBDecoder(v) ELSE v
        one(v) ==
            IF IsList(v) THEN List([i \in DOMAIN v.list |-> item(v.list[i])])
            ELSE IF IsDict(v) THEN BaseMongoDBDecoder(v)
            ELSE v
    IN  Update(Dict([id |-> pop__id(data)]),
               Dict([k \in Keys(rest) |-> one(rest.dict[k])]))

(***************************************************************************)
(* The encoder and the decoder on objects. The heap holds the mappings and *)
(* the lists, each at its address; a mapping holds its items in iteration  *)
(* order; a value inside an object is a scalar or the reference of another *)
(* object.                                                                 *)
(***************************************************************************)
Ref(a) == [ref |-> a]
IsRef(v) == "ref" \in DOMAIN v

\* A mapping written as its items() in iteration order.
Items(s) == [items |-> s]
IsItems(v) == "items" \in DOMAIN v

dict_object(entries) == [kind |-> "dict", entries |-> entries]
list_object(entries) == [kind |-> "list", entries |-> entries]

\* The value of an enum member that is a mapping or a list, with the items
\* of the mapping in an order.
RECURSIVE items_of(_)
items_of(v) ==
    IF IsDict(v)
    THEN LET ks == CHOOSE q \in [1..Cardinality(Keys(v)) -> Keys(v)] :
                        \A i, j \in DOMAIN q : i # j => q[i] # q[j]
         IN  Items([i \in DOMAIN ks |-> <<ks[i], items_of(v.dict[ks[i]])>>])
    ELSE IF IsList(v) THEN List([i \in DOMAIN v.list |-> items_of(v.list[i])])
    ELSE v

\* A structure the caller built: its mappings and lists put on the heap.
RECURSIVE new_object(_, _)
RECURSIVE new_entries(_, _, _)
new_entries(h, structure, n) ==
    IF n = 0 THEN [heap |-> h, entries |-> <<>>]
    ELSE LET before == new_entries(h, structure, n - 1)
             e == IF IsItems(structure) THEN structure.items[n][2] ELSE structure.list[n]
             made == IF IsItems(e) \/ IsList(e) THEN new_object(before.heap, e)
                     ELSE [heap |-> before.heap, ret |-> e]
         IN  [heap |-> made.heap,
              entries |-> Append(before.entries,
                                 IF IsItems(structure)
                                 THEN <<structure.items[n][1], made.ret>>
                                 ELSE made.ret)]

new_object(h, structure) ==
    LET made == new_entries(h, structure,
                            IF IsItems(structure) THEN Len(structure.items)
                            ELSE Len(structure.list))
    IN  [heap |-> Append(made.heap,
                         IF IsItems(structure) THEN dict_object(made.entries)
                         ELSE list_object(made.entries)),
         ret |-> Ref(Len(made.heap) + 1)]

\* The structure that a value on the heap h is the root of.
RECURSIVE structure_of(_, _)
structure_of(h, v) ==
    IF ~IsRef(v) THEN v
    ELSE LET entries == h[v.ref].entries
         IN  IF h[v.ref].kind = "dict"
             THEN Items([i \in DOMAIN entries |->
                            <<entries[i][1], structure_of(h, entries[i][2])>>])
             ELSE List([i \in DOMAIN entries |-> structure_of(h, entries[i])])

\* The addresses of the objects that a value on the heap h leads to.
RECURSIVE reachable(_, _)
reachable(h, v) ==
    IF ~IsRef(v) THEN {}
    ELSE LET entries == h[v.ref].entries
         IN  {v.ref} \cup UNION {reachable(h, IF h[v.ref].kind = "dict"
                                              THEN entries[i][2] ELSE entries[i]) :
                                    i \in DOMAIN entries}

\* The item put in front of the others.
dict_setitem_front(entries, key, v) == <<(<<key, v>>)>> \o entries

\* "d[key] = v", "d.update({key: v})": a key the mapping has keeps its
\* place, a new key comes last.
dict_setitem(entries, key, v) ==
    IF \E i \in DOMAIN entries : entries[i][1] = key
    THEN [i \in DOMAIN entries |-> IF entries[i][1] = key THEN <<key, v>> ELSE entries[i]]
    ELSE Append(entries, <<key, v>>)

\* "d.pop(key, None)": what it returns, and the items it leaves.
dict_pop(entries, key) ==
    IF \E i \in DOMAIN entries : entries[i][1] = key
    THEN entries[CHOOSE i \in DOMAIN entries : entries[i][1] = key][2]
    ELSE None

dict_popped(entries, key) ==
    LET kept(e) == e[1] # key
    IN  SelectSeq(entries, kept)

\* transform_func(value) of a value on the heap: an object is no enum member
\* and no Decimal; the mapping or the list that is the value of an enum
\* member is an object of the enumeration's.
transformed(h, name, v) ==
    IF IsRef(v) THEN [heap |-> h, ret |-> v]
    ELSE LET t == items_of(transform_func(name, v))
         IN  IF IsItems(t) \/ IsList(t) THEN new_object(h, t)
             ELSE [heap |-> h, ret |-> t]

\* _recursive_iterator(data, transform_func) of the object data; iterated
\* is the heap after n turns of its loop.
RECURSIVE _recursive_iterator_objects(_, _, _)
RECURSIVE iterated(_, _, _, _, _)
iterated(h, data, name, _data, n) ==
    IF n = 0 THEN h
    ELSE LET before == iterated(h, data, name, _data, n - 1)
             is_dict == before[data.ref].kind = "dict"
             entry == before[data.ref].entries[n]
             t == transformed(before, name, IF is_dict THEN entry[2] ELSE entry)
             made == IF IsRef(t.ret) THEN _recursive_iterator_objects(t.heap, t.ret, name)
                     ELSE t
         IN  [made.heap EXCEPT ![_data.ref].entries =
                    IF is_dict THEN dict_setitem(@, entry[1], made.ret)
                    ELSE Append(@, made.ret)]

_recursive_iterator_objects(h, data, name) ==
    LET _data == Ref(Len(h) + 1)
        started == Append(h, [kind |-> h[data.ref].kind, entries |-> <<>>])
    IN  [heap |-> iterated(started, data, name, _data, Len(h[data.ref].entries)),
         ret |-> _data]

\* BaseMongoDBEncoder.__call__ of the object data.
BaseMongoDBEncoder_objects(h, data) ==
    LET enums == _recursive_iterator_objects(h, data, "enum_to_value")
    IN  _recursive_iterator_objects(enums.heap, enums.ret,
                                    "python_decimal_to_bson_decimal")

\* BaseMongoDBDecoder.__call__ of the object data; decoded_items is the heap
\* after n turns of the loop over a list, decoded_entries after n turns of
\* the loop over data.items().
RECURSIVE BaseMongoDBDecoder_objects(_, _)
RECURSIVE decoded_items(_, _, _, _)
RECURSIVE decoded_entries(_, _, _, _)
decoded_items(h, v, v_list, n) ==
    IF n = 0 THEN h
    ELSE LET before == decoded_items(h, v, v_list, n - 1)
             entry == before[v.ref].entries[n]
             made == IF IsRef(entry) /\ before[entry.ref].kind = "dict"
                     THEN BaseMongoDBDecoder_objects(before, entry)
                     ELSE [heap |-> before, ret |-> entry]
         IN  [made.heap EXCEPT ![v_list.ref].entries = Append(@, made.ret)]

decoded_entries(h, data, decoded_data, n) ==
    IF n = 0 THEN h
    ELSE LET before == decoded_entries(h, data, decoded_data, n - 1)
             k == before[data.ref].entries[n][1]
             v == before[data.ref].entries[n][2]
             v_list == Ref(Len(before) + 1)
             made == IF IsRef(v) /\ before[v.ref].kind = "list"
                     THEN [heap |-> decoded_items(Append(before, list_object(<<>>)),
                                                  v, v_list, Len(before[v.ref].entries)),
                           ret |-> v_list]
                     ELSE IF IsRef(v)
                     THEN BaseMongoDBDecoder_objects(before, v)
                     ELSE [heap |-> before, ret |-> v]
         IN  [made.heap EXCEPT ![decoded_data.ref].entries = dict_setitem(@, k, made.ret)]

BaseMongoDBDecoder_objects(h, given) ==
    LET data == Ref(Len(h) + 1)
        copied == Append(h, h[given.ref])
        popped_id == [copied EXCEPT ![data.ref].entries = dict_popped(@, "id")]
        _id == dict_pop(popped_id[data.ref].entries, "_id")
        popped == [popped_id EXCEPT ![data.ref].entries = dict_popped(@, "_id")]
        decoded_data == Ref(Len(popped) + 1)
        started == Append(popped, dict_object(<<(<<"id", _id>>)>>))
    IN  [heap |-> decoded_entries(started, data, decoded_data,
                                  Len(started[data.ref].entries)),
         ret |-> decoded_data]

(***************************************************************************)
(* The collection (the external store), as mixins.py calls it.             *)
(* A filter matches a document when every key of the filter has the        *)
(* filter's value in the document (a missing key reads as None, as null    *)
(* does in the store); "$or" matches when one of its sub-filters does.     *)
(***************************************************************************)
RECURSIVE Matches(_, _)
Matches(document, query) ==
    \A k \in Keys(query) :
        IF k = "$or"
        THEN /\ IsList(query.dict[k])
             /\ \E i \in DOMAIN query.dict[k].list :
                    /\ IsDict(query.dict[k].list[i])
                    /\ Matches(document, query.dict[k].list[i])
        ELSE Get(document, k) = query.dict[k]

\* The position of the first document the filter matches, 0 when none does.
first_match(coll, query) ==
    LET hits == {i \in DOMAIN coll : Matches(coll[i], query)}
    IN  IF hits = {} THEN 0 ELSE CHOOSE i \in hits : \A j \in hits : i <= j

collection_find_one(coll, query) ==
    IF first_match(coll, query) = 0 THEN None ELSE coll[first_match(coll, query)]

collection_find(coll, query) ==
    SelectSeq(coll, LAMBDA d : Matches(d, query))

\* insert_one adds the store-issued "_id" to the document it is given.
collection_insert_one(coll, data, oid) ==
    Append(coll, Update(data, Dict([_id |-> oid])))

collection_update_one(coll, query, set) ==
    LET i == first_match(coll, query)
    IN  IF i = 0 THEN coll ELSE [coll EXCEPT ![i] = Update(coll[i], set)]

collection_update_many(coll, query, update) ==
    [i \in DOMAIN coll |->
        IF Matches(coll[i], query)
        THEN Update(coll[i], Get(update, "$set"))
        ELSE coll[i]]

collection_delete_one(coll, query) ==
    LET i == first_match(coll, query)
    IN  IF i = 0 THEN coll
        ELSE [j \in 1..(Len(coll) - 1) |-> IF j < i THEN coll[j] ELSE coll[j + 1]]

\* A count that does not ask whether a document matched.
deleted_count_assumed(coll, query) == 1

deleted_count(coll, query) == IF first_match(coll, query) = 0 THEN 0 ELSE 1

(***************************************************************************)
(* The model class: tests/mixins.py User (username, age, type) with a      *)
(* decimal field, amount, as in tests/encoders/mongodb.py.                 *)
(***************************************************************************)
Fields == {"id", "username", "age", "type", "amount"}

Usernames == {Str("a"), Str("b")}
Ages == {None, IntV(10)}
Types == {EnumMember("Reader"), EnumMember("Admin")}
Amounts == {Decimal("13.37")}

FieldValues(k) ==
    CASE k = "username" -> Usernames
      [] k = "age" -> Ages
      [] k = "type" -> Types
      [] k = "amount" -> Amounts

\* types.py ObjectIdStr.validate: an ObjectId becomes its string.
ObjectIdStr(v) == IF "oid" \in DOMAIN v THEN Str(ToString(v.oid)) ELSE v

\* pydantic's validation of one field of parse_obj.
validate(k, v) ==
    CASE k = "id" -> ObjectIdStr(v)
      [] k = "type" ->
            IF IsEnum(v) THEN v
            ELSE EnumMember(CHOOSE n \in DOMAIN UserTypesEnum : UserTypesEnum[n] = v)
      [] k = "amount" ->
            IF "decimal128" \in DOMAIN v THEN Decimal(v.decimal128) ELSE v
      [] OTHER -> v

field_default(k) == IF k = "type" THEN EnumMember("Reader") ELSE None

\* cls.parse_obj(document): a model from a document; keys that are no field are ignored.
parse_obj(document) ==
    Dict([k \in Fields |->
            IF k \in Keys(document) THEN validate(k, document.dict[k])
            ELSE field_default(k)])

\* self.__dict__: the field values, and the snapshot __setattr__ puts there.
__dict__(model, doc) == Update(model, Dict([_doc |-> doc]))

\* The serialization with the caller's exclude set alone.
dict_as_excluded(model, exclude) == Without(model, exclude)

\* BaseDBMixin.dict(exclude=...): "exclude = {"_doc", *exclude}"
dict(model, exclude) == Without(model, {"_doc"} \cup exclude)

_encode_dict_to_mongo(data) == BaseMongoDBEncoder(data)

\* The document taken as the store gave it.
_decode_skipped(document) == document

_decode_mongo_documents(document) == BaseMongoDBDecoder(document)

_encode_model_to_mongo(model, exclude) == BaseMongoDBEncoder(dict(model, exclude))

\* The fields left as they were.
_update_model_skipped(doc) == self

\* The fields of self after _update_model_from__doc().
_update_model_from__doc(doc) ==
    LET new_obj == Update(parse_obj(doc), Dict([id |-> Get(doc, "id")]))
    IN  Dict([k \in Fields |-> new_obj.dict[k]])

(***************************************************************************)
(* db.py: the connection registry                                          *)
(* Database settings are the items of the settings dict in their order,    *)
(* each an alias with its configuration.                                   *)
(***************************************************************************)
\* tests/conftest.py DATABASE_SETTING
DATABASE_SETTING ==
    <<[alias |-> "default",
       configuration |-> Dict([NAME |-> Str("test_mongo"), PORT |-> IntV(37017)])]>>

\* The settings a caller passes to MongoDBManager(database_settings, loop).
SettingsInputs ==
    {<<>>,
     DATABASE_SETTING,
     <<[alias |-> "default",
        configuration |-> Dict([NAME |-> Str("other"), HOST |-> Str("mongo")])]>>,
     <<[alias |-> "minimal", configuration |-> EmptyDict]>>,
     <<[alias |-> "default",
        configuration |-> Dict([NAME |-> Str("test_mongo"), PORT |-> IntV(37017)])],
       [alias |-> "second",
        configuration |-> Dict([USERNAME |-> Str("mongo_user"),
                                PASSWORD |-> Str("mongo_password"),
                                AUTH_SOURCE |-> Str("admin"),
                                AUTH_MECHANISM |-> Str("SCRAM-SHA-1"),
                                OPTIONAL_PARAMETERS |-> Dict([tz_aware |-> Str("True")])])]>>}

\* The loop a caller passes: none, or an event loop of its own.
LoopInputs == {None, Str("custom_event_loop")}

get_running_loop == Str("running_loop")

\* MongoDBManager.__init__
MongoDBManager(database_settings, loop) ==
    [settings |-> database_settings,
     _loop |-> IF Truthy(loop) THEN loop ELSE get_running_loop,
     is_init |-> FALSE]

\* A later construction gives the manager its settings and its loop.
MongoDBManagerMeta_updated(instance, database_settings, loop) ==
    IF instance = None THEN MongoDBManager(database_settings, loop)
    ELSE [MongoDBManager(database_settings, loop) EXCEPT !.is_init = instance.is_init]

\* Every construction makes a new manager.
MongoDBManagerMeta_renewed(instance, database_settings, loop) ==
    MongoDBManager(database_settings, loop)

\* MongoDBManagerMeta.__call__, with its lock held: the instance it returns.
MongoDBManagerMeta(instance, database_settings, loop) ==
    IF instance = None THEN MongoDBManager(database_settings, loop) ELSE instance

get_db_manager == _instance

\* MongoDBManager.__getitem__
__getitem__(item) == IF item \in DOMAIN databases THEN databases[item] ELSE None

\* The keyword arguments init_connections builds for one configuration.
connection_params(configuration, loop) ==
    LET params == Dict([username |-> Get(configuration, "USERNAME"),
                        password |-> Get(configuration, "PASSWORD"),
                        host |-> Get(configuration, "HOST"),
                        port |-> Get(configuration, "PORT"),
                        authSource |-> IF "AUTH_SOURCE" \in Keys(configuration)
                                       THEN configuration.dict["AUTH_SOURCE"]
                                       ELSE Str("")])
        optional == IF "OPTIONAL_PARAMETERS" \in Keys(configuration)
                    THEN Update(params, configuration.dict["OPTIONAL_PARAMETERS"])
                    ELSE params
        auth_mech == Get(configuration, "AUTH_MECHANISM")
        with_mech == IF Truthy(auth_mech)
                     THEN Update(optional, Dict([authMechanism |-> auth_mech]))
                     ELSE optional
    IN  Update(with_mech, Dict([io_loop |-> loop]))

\* A client object: what it was created with, and which creation it was.
AsyncIOMotorClient(params, serial) == [client |-> params, serial |-> serial]

\* client[db_name]
database(client, name) == [client |-> client, name |-> name]

\* The clients init_connections creates, one for each item of the settings.
created_clients(manager, n) ==
    [i \in DOMAIN manager.settings |->
        AsyncIOMotorClient(
            connection_params(manager.settings[i].configuration, manager._loop), n + i)]

\* The database named after the alias whatever NAME says.
db_name_alias(item) == Str(item.alias)

\* "db_name = configuration.get("NAME", alias)"
db_name(item) ==
    IF "NAME" \in Keys(item.configuration) THEN item.configuration.dict["NAME"]
    ELSE Str(item.alias)

aliases(settings) == {settings[i].alias : i \in DOMAIN settings}

\* The last item of the settings with the alias.
item_of(settings, alias) ==
    CHOOSE i \in DOMAIN settings :
        /\ settings[i].alias = alias
        /\ \A j \in DOMAIN settings : settings[j].alias = alias => j <= i

\* self.connections after the loop of init_connections.
connections_set(conns, manager, n) ==
    [a \in DOMAIN conns \cup aliases(manager.settings) |->
        IF a \in aliases(manager.settings)
        THEN created_clients(manager, n)[item_of(manager.settings, a)]
        ELSE conns[a]]

\* self.databases after the loop of init_connections.
databases_set(dbs, manager, n) ==
    [a \in DOMAIN dbs \cup aliases(manager.settings) |->
        IF a \in aliases(manager.settings)
        THEN database(created_clients(manager, n)[item_of(manager.settings, a)],
                      db_name(manager.settings[item_of(manager.settings, a)]))
        ELSE dbs[a]]

\* The flag not looked at.
is_init_ignored(manager) == FALSE

\* "if self.is_init"
is_init(manager) == manager.is_init

\* The settings rejected when an alias has an empty configuration as well.
not_settings_or_configuration(manager) ==
    \/ manager.settings = <<>>
    \/ \E i \in DOMAIN manager.settings : manager.settings[i].configuration = EmptyDict

\* "if not self.settings"
not_settings(manager) == manager.settings = <<>>

\* A registry nobody constructed.
NoEntries == [a \in {} |-> None]

\* The registry after the fixture of tests/conftest.py (init_test_db):
\* MongoDBManager(DATABASE_SETTING, loop).init_connections().
init_test_db ==
    LET manager == MongoDBManager(DATABASE_SETTING, None)
    IN  /\ _instance = [manager EXCEPT !.is_init = TRUE]
        /\ connections = connections_set(NoEntries, manager, 0)
        /\ databases = databases_set(NoEntries, manager, 0)
        /\ clients = Len(DATABASE_SETTING)
        /\ constructed = 1

(***************************************************************************)
(* mixins.py: the hook, the collection, the calls of an operation          *)
(***************************************************************************)
\* tests/mixins.py User.Config
UserConfig == Dict([database |-> Str("default"), collection |-> Str("test_user")])

\* get_collection() returning a collection whatever Config and the registry hold.
get_collection_unchecked == ""

\* get_collection(): the error it raises, "" when it returns the collection.
get_collection_error ==
    IF ~Truthy(Get(Config, "database")) \/ ~Truthy(Get(Config, "collection"))
    THEN "ValueError"
    ELSE IF get_db_manager = None THEN "RuntimeError"
    ELSE IF ~Truthy(__getitem__(Get(Config, "database").str)) THEN "ValueError"
    ELSE ""

\* The pre_save_validation of the model class: the mixin's own, which returns
\* its data; an override that returns modified data; an override that raises.
Hooks == {"default", "modifying", "raising"}

\* What the modifying override returns: each document with one more key.
modified(data) ==
    LET one(d) == IF IsDict(d) THEN Update(d, Dict([checked |-> Str("yes")])) ELSE d
    IN  IF IsList(data) THEN List([i \in DOMAIN data.list |-> one(data.list[i])])
        ELSE one(data)

pre_save_validation(data, many) ==
    IF hook = "modifying" THEN modified(data) ELSE data

\* The call of the hook: what it was passed, whether it returned, what it returned.
hook_call(data, many) ==
    [call |-> "pre_save_validation",
     passed |-> data,
     many |-> many,
     completed |-> hook # "raising",
     data |-> IF hook = "raising" THEN None ELSE pre_save_validation(data, many)]

\* "await self.pre_save_validation(data)": the data the operation goes on with.
awaited(data, returned) == data

get_collection_call == [call |-> "get_collection"]

store_call(name, query, data) == [call |-> name, query |-> query, data |-> data]

StoreCalls == {"insert_one", "update_one", "find_one", "find_one_and_update",
               "delete_one", "find", "update_many", "insert_many"}

Writes == {"insert_one", "update_one", "find_one_and_update", "delete_one",
           "update_many", "insert_many"}

\* The hook called after the calls it should precede.
hook_last(h, cs) == cs \o <<h>>

\* The calls of an operation that awaits the hook and then makes the calls cs.
hook_first(h, cs) == <<h>> \o cs

\* The check of the id left out.
not_id_unchecked(model) == FALSE

\* "if not self.id"
not_id(model) == ~Truthy(Get(model, "id"))

by_id(model) == Dict([_id |-> Get(model, "id")])

outcome(op, args, raised, value) ==
    [op |-> op, args |-> args, raised |-> raised, value |-> value]

\* What the store does with a round trip: it answers; the request is lost
\* and the call raises (or is cancelled) with nothing applied; the reply is
\* lost and the call raises (or is cancelled) with the operation applied.
Faults == {"none", "lost_request", "lost_reply"}

(***************************************************************************)
(* Inputs                                                                  *)
(***************************************************************************)
\* update(fields): a plain dict, or a pydantic model (tests/mixins.py
\* UserSerializer) with the names of the fields that were explicitly set.
UpdateInputs ==
    {[kind |-> "dict", data |-> Dict([username |-> Str("b")])],
     [kind |-> "dict", data |-> Dict([username |-> Str("a"), age |-> None])],
     [kind |-> "dict", data |-> Dict([type |-> EnumMember("Admin"), age |-> IntV(10)])],
     [kind |-> "dict", data |-> Dict([amount |-> Decimal("13.37"), username |-> Str("b")])],
     [kind |-> "BaseModel",
      data |-> Dict([username |-> Str("b"), age |-> None]),
      fields_set |-> {"username"}],
     [kind |-> "BaseModel",
      data |-> Dict([username |-> Str("a"), age |-> IntV(10)]),
      fields_set |-> {"username", "age"}]}

\* fields.dict(), the unset fields included.
dict_all_fields(fields) == fields.data

\* fields.dict(exclude_unset=True)
dict_exclude_unset(fields) == Only(fields.data, fields.fields_set)

Queries ==
    {Dict([_id |-> ObjectId(1)]),
     Dict([id |-> ObjectId(1)]),
     Dict([username |-> Str("a")]),
     Dict([type |-> EnumMember("Admin")]),
     Dict([author |-> Dict([id |-> ObjectId(1)])]),
     Dict("$or" :> List(<<Dict([id |-> ObjectId(2)]), Dict([username |-> Str("b")])>>))}

UpdateManyFields ==
    {Dict("$set" :> Dict([username |-> Str("b")])),
     Dict("$set" :> Dict([age |-> None]))}

\* A model constructed from field values: no id, no snapshot.
new_model(username, age, type, amount) ==
    Dict([id |-> None, username |-> username, age |-> age,
          type |-> type, amount |-> amount])

\* bulk_create(documents): lists of plain documents, of model instances, a
\* plain document that holds an enum member and a decimal, and mixed lists.
BulkInputs ==
    LET plain_a == Dict([username |-> Str("a"), age |-> IntV(10)])
        plain_b == Dict([username |-> Str("b"), type |-> Str("admin")])
        typed == Dict([username |-> Str("a"), type |-> EnumMember("Admin"),
                       amount |-> Decimal("13.37")])
        user_a == Model(new_model(Str("a"), None, EnumMember("Admin"), Decimal("13.37")))
        user_b == Model(new_model(Str("b"), IntV(10), EnumMember("Reader"), Decimal("13.37")))
    IN  {List(<<>>),
         List(<<plain_a>>),
         List(<<plain_b, plain_a>>),
         List(<<user_a>>),
         List(<<user_b, user_a>>),
         List(<<typed>>),
         List(<<user_a, plain_a>>),
         List(<<plain_a, user_a>>)}

(***************************************************************************)
(* DBPydanticMixin                                                         *)
(***************************************************************************)
\* The model class as tests/mixins.py defines it, a store that answers, and
\* the registry the test fixture initialized.
InitEnv ==
    /\ Config = UserConfig
    /\ hook = "default"
    /\ fault = "none"
    /\ init_test_db

\* No thread is constructing a manager, no document is being encoded.
InitIdle ==
    /\ threads = [t \in Threads |-> [pc |-> "idle", args |-> None, returned |-> None]]
    /\ _lock = None
    /\ steps = <<>>
    /\ passes = <<>>
    /\ tasks = [t \in Tasks |-> [pc |-> "idle", oid |-> None, order |-> None]]
    /\ heap = <<>>

InitModel ==
    /\ \E u \in Usernames, a \in Ages, t \in Types, m \in Amounts :
            self = new_model(u, a, t, m)
    /\ _doc = EmptyDict
    /\ collection = <<>>
    /\ issued = 0
    /\ calls = <<>>
    /\ result = outcome("__init__", None, "", None)
    /\ synced = None

Init == InitModel /\ InitEnv /\ InitIdle

\* User(**model_data): the caller goes on with a new instance.
construct ==
    /\ \E u \in Usernames, a \in Ages, t \in Types, m \in Amounts :
            self' = new_model(u, a, t, m)
    /\ _doc' = EmptyDict
    /\ calls' = <<>>
    /\ result' = outcome("__init__", None, "", None)
    /\ synced' = None
    /\ UNCHANGED <<collection, issued, env, registry, apart>>

\* user.<field> = value, for a field other than id.
set_field ==
    /\ \E k \in Fields \ {"id"} : \E v \in FieldValues(k) :
            /\ v # self.dict[k]
            /\ self' = Update(self, Dict(k :> v))
    /\ calls' = <<>>
    /\ result' = outcome("__setattr__", None, "", None)
    /\ UNCHANGED <<_doc, collection, issued, synced, env, registry, apart>>

\* user.id = None (tests/mixins.py, "Without model.id")
clear_id ==
    /\ ~not_id(self)
    /\ self' = Update(self, Dict([id |-> None]))
    /\ calls' = <<>>
    /\ result' = outcome("__setattr__", None, "", None)
    /\ UNCHANGED <<_doc, collection, issued, synced, env, registry, apart>>

\* An operation that raises before the store is asked for anything.
raises(op, args, cs, error) ==
    /\ calls' = cs
    /\ result' = outcome(op, args, error, None)
    /\ UNCHANGED <<self, _doc, collection, issued, synced>>

\* The failed round trip made a second time before the operation raises.
store_raises_retried(op, args, cs, applied, ids) ==
    /\ calls' = cs \o <<cs[Len(cs)]>>
    /\ result' = outcome(op, args, "StoreError", None)
    /\ collection' = IF fault = "lost_reply" THEN applied ELSE collection
    /\ issued' = IF fault = "lost_reply" THEN ids ELSE issued
    /\ UNCHANGED <<self, _doc, synced>>

\* An operation whose await of the store raises or is cancelled: the store
\* has applied the operation when only the reply was lost.
store_raises(op, args, cs, applied, ids) ==
    /\ calls' = cs
    /\ result' = outcome(op, args, "StoreError", None)
    /\ collection' = IF fault = "lost_reply" THEN applied ELSE collection
    /\ issued' = IF fault = "lost_reply" THEN ids ELSE issued
    /\ UNCHANGED <<self, _doc, synced>>

\* The store-issued id not adopted.
inserted_id_dropped(oid) == None

\* The id adopted by an instance that has none yet, and by no other.
inserted_id_earlier(oid) == IF Get(self, "id") # None THEN Get(self, "id") ELSE oid

\* self.id = instance.inserted_id
inserted_id(oid) == oid

\* The snapshot taken before the id was adopted.
inserted_doc_stale(model) == Update(dict(model, {}), Dict([id |-> None]))

\* self._doc = {"id": self.id, **self.dict()}
inserted_doc(model) == Update(Dict([id |-> Get(model, "id")]), dict(model, {}))

\* Every field of data, whatever the snapshot holds.
updated_fields_all(doc, data) == data

\* The fields of data whose value differs from the snapshot's.
updated_fields(doc, data) ==
    Only(data, {field \in Keys(data) : Get(doc, field) # data.dict[field]})

save ==
    /\ UNCHANGED <<env, registry, apart>>
    /\ IF get_collection_error # ""
       THEN raises("save", None, <<get_collection_call>>, get_collection_error)
       ELSE IF not_id(self)
       THEN LET encoded == _encode_model_to_mongo(self, {})
                h == hook_call(encoded, FALSE)
                data == awaited(encoded, h.data)
                oid == ObjectId(issued + 1)
                me == Update(self, Dict([id |-> inserted_id(oid)]))
                sent == <<get_collection_call>>
                            \o hook_first(h, <<store_call("insert_one", None, data)>>)
            IN  /\ issued < MaxOid
                /\ IF ~h.completed
                   THEN raises("save", None, <<get_collection_call, h>>, "TypeError")
                   ELSE IF fault # "none"
                   THEN store_raises("save", None, sent,
                            collection_insert_one(collection, data, oid), issued + 1)
                   ELSE /\ calls' = sent
                        /\ collection' = collection_insert_one(collection, data, oid)
                        /\ issued' = issued + 1
                        /\ self' = me
                        /\ _doc' = inserted_doc(me)
                        /\ synced' = me
                        /\ result' = outcome("save", None, "", Str("self"))
       ELSE LET encoded == _encode_model_to_mongo(self, {"id"})
                h == hook_call(encoded, FALSE)
                data == awaited(encoded, h.data)
                updated == updated_fields(_doc, data)
                sent == <<get_collection_call>>
                            \o hook_first(h, <<store_call("update_one", by_id(self), updated)>>)
            IN  IF ~h.completed
                THEN raises("save", None, <<get_collection_call, h>>, "TypeError")
                ELSE IF ~Truthy(updated)
                THEN /\ calls' = <<get_collection_call, h>>
                     /\ synced' = self
                     /\ result' = outcome("save", None, "", Str("self"))
                     /\ UNCHANGED <<self, _doc, collection, issued>>
                ELSE IF fault # "none"
                THEN store_raises("save", None, sent,
                        collection_update_one(collection, by_id(self), updated), issued)
                ELSE /\ calls' = sent
                     /\ collection' = collection_update_one(collection, by_id(self), updated)
                     /\ _doc' = Update(_doc, updated)
                     /\ synced' = self
                     /\ result' = outcome("save", None, "", Str("self"))
                     /\ UNCHANGED <<self, issued>>

reload ==
    /\ UNCHANGED <<env, registry, apart>>
    /\ IF get_collection_error # ""
       THEN raises("reload", None, <<get_collection_call>>, get_collection_error)
       ELSE IF not_id(self)
       THEN raises("reload", None, <<get_collection_call>>, "ValueError")
       ELSE LET found == collection_find_one(collection, by_id(self))
                doc == _decode_mongo_documents(found)
                sent == <<get_collection_call, store_call("find_one", by_id(self), None)>>
            IN  IF fault # "none"
                THEN store_raises("reload", None, sent, collection, issued)
                ELSE /\ calls' = sent
                     /\ result' = outcome("reload", None, "", Str("self"))
                     /\ IF Truthy(found)
                        THEN /\ _doc' = doc
                             /\ self' = _update_model_from__doc(doc)
                             /\ synced' = self'
                        ELSE UNCHANGED <<self, _doc, synced>>
                     /\ UNCHANGED <<collection, issued>>

update(fields) ==
    LET given == IF fields.kind = "BaseModel" THEN dict_exclude_unset(fields)
                 ELSE fields.data
        h == hook_call(given, FALSE)
        data == awaited(given, h.data)
    IN  /\ UNCHANGED <<env, registry, apart>>
        /\ IF ~h.completed
           THEN raises("update", given, <<h>>, "TypeError")
           ELSE IF get_collection_error # ""
           THEN raises("update", given, hook_first(h, <<get_collection_call>>),
                       get_collection_error)
           ELSE IF not_id(self)
           THEN raises("update", given, hook_first(h, <<get_collection_call>>),
                       "ValueError")
           ELSE LET encoded == _encode_dict_to_mongo(data)
                    after == collection_update_one(collection, by_id(self), encoded)
                    found == collection_find_one(after, by_id(self))
                    doc == Update(_doc, _decode_mongo_documents(found))
                    sent == hook_first(h, <<get_collection_call,
                                store_call("find_one_and_update", by_id(self), encoded)>>)
                IN  IF fault # "none"
                    THEN store_raises("update", given, sent, after, issued)
                    ELSE /\ calls' = sent
                         /\ result' = outcome("update", given, "", Str("self"))
                         /\ collection' = after
                         /\ IF Truthy(found)
                            THEN /\ _doc' = doc
                                 /\ self' = _update_model_from__doc(doc)
                                 /\ synced' = self'
                            ELSE UNCHANGED <<self, _doc, synced>>
                         /\ UNCHANGED issued

delete ==
    /\ UNCHANGED <<env, registry, apart>>
    /\ IF get_collection_error # ""
       THEN raises("delete", None, <<get_collection_call>>, get_collection_error)
       ELSE IF not_id(self)
       THEN raises("delete", None, <<get_collection_call>>, "ValueError")
       ELSE LET sent == <<get_collection_call, store_call("delete_one", by_id(self), None)>>
            IN  IF fault # "none"
                THEN store_raises("delete", None, sent,
                        collection_delete_one(collection, by_id(self)), issued)
                ELSE /\ calls' = sent
                     /\ collection' = collection_delete_one(collection, by_id(self))
                     /\ _doc' = EmptyDict
                     /\ result' = outcome("delete", None, "",
                                          IntV(deleted_count(collection, by_id(self))))
                     /\ UNCHANGED <<self, issued, synced>>

\* The model with the id parse_obj gave it.
found_model_parsed(doc) == Dict([model |-> parse_obj(doc), _doc |-> doc])

\* The model find_one builds from a decoded document, with its snapshot.
found_model(doc) ==
    Dict([model |-> Update(parse_obj(doc), Dict([id |-> Get(doc, "id")])),
          _doc |-> doc])

\* The model find_many builds from a decoded document: its id is the parsed one.
listed_model(doc) == Dict([model |-> parse_obj(doc), _doc |-> doc])

find_one(query) ==
    LET q == _encode_dict_to_mongo(query)
        found == collection_find_one(collection, q)
        sent == <<get_collection_call, store_call("find_one", q, None)>>
    IN  /\ UNCHANGED <<env, registry, apart>>
        /\ IF get_collection_error # ""
           THEN raises("find_one", query, <<get_collection_call>>, get_collection_error)
           ELSE IF fault # "none"
           THEN store_raises("find_one", query, sent, collection, issued)
           ELSE /\ calls' = sent
                /\ result' = outcome("find_one", query, "",
                        IF Truthy(found) THEN found_model(_decode_mongo_documents(found))
                        ELSE found)
                /\ UNCHANGED <<self, _doc, collection, issued, synced>>

\* The list find_many returns for a filter that is already encoded.
found_models(coll, q) ==
    LET docs == collection_find(coll, q)
    IN  List([i \in DOMAIN docs |-> listed_model(_decode_mongo_documents(docs[i]))])

find_many(query) ==
    LET q == _encode_dict_to_mongo(query)
        sent == <<get_collection_call, store_call("find", q, None)>>
    IN  /\ UNCHANGED <<env, registry, apart>>
        /\ IF get_collection_error # ""
           THEN raises("find_many", query, <<get_collection_call>>, get_collection_error)
           ELSE IF fault # "none"
           THEN store_raises("find_many", query, sent, collection, issued)
           ELSE /\ calls' = sent
                /\ result' = outcome("find_many", query, "", found_models(collection, q))
                /\ UNCHANGED <<self, _doc, collection, issued, synced>>

\* UpdateResult.matched_count
matched_count(coll, query) == Cardinality({i \in DOMAIN coll : Matches(coll[i], query)})

\* The collection find_many reads from: the one captured before the update.
read_before(before, after) == before

\* The collection find_many reads from after "await collection.update_many(...)".
read_after(before, after) == after

update_many(query, fields) ==
    LET h == hook_call(fields, TRUE)
        data == awaited(fields, h.data)
        q == _encode_dict_to_mongo(query)
        qq == _encode_dict_to_mongo(q)
        after == collection_update_many(collection, q, data)
        updating == hook_first(h, <<get_collection_call,
                        store_call("update_many", q, data)
                            @@ [matched_count |-> matched_count(collection, q)]>>)
    IN  /\ UNCHANGED <<env, registry, apart>>
        /\ IF ~h.completed
           THEN raises("update_many", query, <<h>>, "TypeError")
           ELSE IF get_collection_error # ""
           THEN raises("update_many", query, hook_first(h, <<get_collection_call>>),
                       get_collection_error)
           ELSE IF fault # "none"
           THEN store_raises("update_many", query, updating, after, issued)
           ELSE /\ calls' = updating \o <<get_collection_call, store_call("find", qq, None)>>
                /\ collection' = after
                /\ result' = outcome("update_many", query, "",
                                     found_models(read_after(collection, after), qq))
                /\ UNCHANGED <<self, _doc, issued, synced>>

\* isinstance(documents[0], BaseModel)
first_is_model(documents) == IsModel(documents.list[1])

\* [cls._encode_dict_to_mongo(d.dict()) for d in documents]; a plain dict
\* among the documents has no method dict().
encoded_models(documents) ==
    List([i \in DOMAIN documents.list |->
            _encode_dict_to_mongo(documents.list[i].model)])

\* What bson can write: no model instance, no enum member, no Decimal.
RECURSIVE encodable(_)
encodable(v) ==
    IF IsModel(v) \/ IsEnum(v) \/ IsDecimal(v) THEN FALSE
    ELSE IF IsDict(v) THEN \A k \in Keys(v) : encodable(v.dict[k])
    ELSE IF IsList(v) THEN \A i \in DOMAIN v.list : encodable(v.list[i])
    ELSE TRUE

\* insert_many adds the store-issued "_id" to each of the documents it is
\* given; n identities were issued before.
inserted_many(documents, n) ==
    [i \in DOMAIN documents |-> Update(documents[i], Dict([_id |-> ObjectId(n + i)]))]

\* The ids of the inserted documents, in the reverse of the documents' order.
inserted_ids_reversed(inserted) ==
    [i \in DOMAIN inserted |-> Get(inserted[Len(inserted) + 1 - i], "_id")]

\* result.inserted_ids: the id of each inserted document, in the documents' order.
inserted_ids(inserted) == [i \in DOMAIN inserted |-> Get(inserted[i], "_id")]

\* The instance bulk_create builds for one inserted document.
created_model(document, document_id) ==
    Dict([model |-> Update(parse_obj(document), Dict([id |-> document_id])),
          _doc |-> _decode_mongo_documents(document)])

bulk_create(given) ==
    /\ UNCHANGED <<env, registry, apart>>
    /\ IF get_collection_error # ""
       THEN raises("bulk_create", given, <<get_collection_call>>, get_collection_error)
       ELSE IF ~Truthy(given)
       THEN /\ calls' = <<get_collection_call>>
            /\ result' = outcome("bulk_create", given, "", List(<<>>))
            /\ UNCHANGED <<self, _doc, collection, issued, synced>>
       ELSE IF first_is_model(given) /\ \E i \in DOMAIN given.list : ~IsModel(given.list[i])
       THEN raises("bulk_create", given, <<get_collection_call>>, "AttributeError")
       ELSE LET documents == IF first_is_model(given) THEN encoded_models(given) ELSE given
                h == hook_call(documents, TRUE)
                data == awaited(documents, h.data)
                count == Len(data.list)
                docs == inserted_many(data.list, issued)
                ids == inserted_ids(docs)
                sent == <<get_collection_call>>
                            \o hook_first(h, <<store_call("insert_many", None, data)>>)
            IN  /\ issued + count <= MaxOid
                /\ IF ~h.completed
                   THEN raises("bulk_create", given, <<get_collection_call, h>>, "TypeError")
                   ELSE IF \E i \in DOMAIN data.list : IsModel(data.list[i])
                   THEN raises("bulk_create", given, sent, "TypeError")
                   ELSE IF ~encodable(data)
                   THEN raises("bulk_create", given, sent, "InvalidDocument")
                   ELSE IF fault # "none"
                   THEN store_raises("bulk_create", given, sent,
                                     collection \o docs, issued + count)
                   ELSE /\ calls' = sent
                        /\ collection' = collection \o docs
                        /\ issued' = issued + count
                        /\ result' = outcome("bulk_create", given, "",
                                List([i \in 1..count |-> created_model(docs[i], ids[i])]))
                        /\ UNCHANGED <<self, _doc, synced>>

\* The caller's event loop reaching MongoDBManager(database_settings, loop).
manager_call ==
    \E database_settings \in SettingsInputs, loop \in LoopInputs :
        /\ _instance' = MongoDBManagerMeta(_instance, database_settings, loop)
        /\ calls' = <<>>
        /\ result' = outcome("MongoDBManager",
                             [database_settings |-> database_settings, loop |-> loop],
                             "", Str("instance"))
        /\ constructed' = IF _instance = None THEN constructed + 1 ELSE constructed
        /\ UNCHANGED <<connections, databases, clients>>
        /\ UNCHANGED <<self, _doc, collection, issued, synced, env, apart>>

\* The arguments of the construction init_connections is chained to, as in
\* MongoDBManager(database_settings, loop).init_connections(); None when
\* it is called on a manager obtained earlier.
chained_to(last) == IF last.op = "MongoDBManager" THEN last.args ELSE None

\* manager.init_connections(), on the manager a construction returned.
init_connections ==
    /\ _instance # None
    /\ calls' = <<>>
    /\ UNCHANGED <<self, _doc, collection, issued, synced, env, apart, constructed>>
    /\ IF is_init(_instance)
       THEN /\ result' = outcome("init_connections", chained_to(result), "", Str("self"))
            /\ UNCHANGED <<_instance, connections, databases, clients>>
       ELSE IF not_settings(_instance)
       THEN /\ result' = outcome("init_connections", chained_to(result), "RuntimeError", None)
            /\ UNCHANGED <<_instance, connections, databases, clients>>
       ELSE /\ connections' = connections_set(connections, _instance, clients)
            /\ databases' = databases_set(databases, _instance, clients)
            /\ clients' = clients + Len(_instance.settings)
            /\ _instance' = [_instance EXCEPT !.is_init = TRUE]
            /\ result' = outcome("init_connections", chained_to(result), "", Str("self"))

\* The exclude sets a caller passes to dict(): none, fields, the snapshot key.
ExcludeInputs == {{}, {"id"}, {"_doc"}, {"username", "age"}}

\* user.dict(exclude=...)
dict_call ==
    \E exclude \in ExcludeInputs :
        /\ calls' = <<>>
        /\ result' = outcome("dict", exclude, "", dict(__dict__(self, _doc), exclude))
        /\ UNCHANGED <<self, _doc, collection, issued, synced, env, registry, apart>>

\* The snapshots a caller assigns, as test_exclude__doc_from_dict does.
SnapshotInputs ==
    {EmptyDict,
     Dict([username |-> Str("b"), age |-> IntV(10)]),
     Dict([id |-> ObjectId(1), username |-> Str("a")])}

\* user._doc = value: __setattr__ with the key "_doc".
setattr__doc ==
    \E value \in SnapshotInputs :
        /\ _doc' = value
        /\ calls' = <<>>
        /\ result' = outcome("__setattr__", Str("_doc"), "", value)
        /\ UNCHANGED <<self, collection, issued, synced, env, registry, apart>>

\* How many of the tasks' inserts have returned.
returned_inserts == Cardinality({t \in Tasks : tasks[t].pc = "done"})

\* A task's save() of an instance with no id, up to its suspension at
\* "await collection.insert_one(data)": the store gets the document.
save_insert_sent(t) ==
    LET encoded == _encode_model_to_mongo(self, {})
        h == hook_call(encoded, FALSE)
        data == awaited(encoded, h.data)
        oid == ObjectId(issued + 1)
    IN  /\ tasks[t].pc = "idle"
        /\ get_collection_error = ""
        /\ not_id(self)
        /\ h.completed
        /\ fault = "none"
        /\ issued < MaxOid
        /\ calls' = <<get_collection_call>>
                        \o hook_first(h, <<store_call("insert_one", None, data)>>)
        /\ collection' = collection_insert_one(collection, data, oid)
        /\ issued' = issued + 1
        /\ tasks' = [tasks EXCEPT ![t] = [pc |-> "inserting", oid |-> oid, order |-> None]]
        /\ result' = outcome("save", Str(t), "", Str("suspended"))
        /\ UNCHANGED <<self, _doc, synced, env, registry, threads, _lock, steps, passes, heap>>

\* The task resumed with the InsertOneResult: the rest of save().
save_insert_returned(t) ==
    LET me == Update(self, Dict([id |-> inserted_id(tasks[t].oid)]))
    IN  /\ tasks[t].pc = "inserting"
        /\ self' = me
        /\ _doc' = inserted_doc(me)
        /\ synced' = me
        /\ tasks' = [tasks EXCEPT ![t].pc = "done",
                                  ![t].order = IntV(returned_inserts + 1)]
        /\ calls' = <<>>
        /\ result' = outcome("save", Str(t), "", Str("self"))
        /\ UNCHANGED <<collection, issued, env, registry, threads, _lock, steps, passes, heap>>

\* The aliases a caller looks up: configured by some settings, or by none.
LookupInputs == {"default", "second", "minimal", "missing"}

\* manager[item], on the manager a construction returned.
manager_getitem ==
    \E item \in LookupInputs :
        /\ _instance # None
        /\ calls' = <<>>
        /\ result' = outcome("__getitem__", item, "", __getitem__(item))
        /\ UNCHANGED <<self, _doc, collection, issued, synced, env, registry, apart>>

\* The settings and the loops the threads construct managers with.
ThreadSettings ==
    {<<>>, DATABASE_SETTING, <<[alias |-> "minimal", configuration |-> EmptyDict]>>}

ThreadLoops(t) == {None, Str("event_loop")}

\* The lock taken whether or not another thread holds it.
acquirable_always(lock) == TRUE

\* "with cls._lock": a thread enters when no thread holds the lock.
acquirable(lock) == lock = None

\* A thread reaches MongoDBManager(database_settings, loop).
thread_call(t) ==
    /\ threads[t].pc \in {"idle", "done"}
    /\ \E database_settings \in ThreadSettings, loop \in ThreadLoops(t) :
            threads' = [threads EXCEPT ![t] =
                            [pc |-> "acquire",
                             args |-> [database_settings |-> database_settings,
                                       loop |-> loop],
                             returned |-> None]]
    /\ UNCHANGED <<self, _doc, collection, issued, calls, result, synced, env,
                   registry, _lock, steps, passes, tasks, heap>>

\* MongoDBManagerMeta.__call__: "with cls._lock" entered.
lock_acquire(t) ==
    /\ threads[t].pc = "acquire"
    /\ acquirable(_lock)
    /\ _lock' = Str("thread")
    /\ threads' = [threads EXCEPT ![t].pc = "test"]
    /\ UNCHANGED <<self, _doc, collection, issued, calls, result, synced, env,
                   registry, steps, passes, tasks, heap>>

\* MongoDBManagerMeta.__call__: "if not cls._instance".
instance_test(t) ==
    /\ threads[t].pc = "test"
    /\ threads' = [threads EXCEPT ![t].pc = IF _instance = None THEN "create"
                                            ELSE "release"]
    /\ UNCHANGED <<self, _doc, collection, issued, calls, result, synced, env,
                   registry, _lock, steps, passes, tasks, heap>>

\* MongoDBManagerMeta.__call__: "cls._instance = super().__call__(...)".
instance_create(t) ==
    /\ threads[t].pc = "create"
    /\ _instance' = MongoDBManager(threads[t].args.database_settings,
                                   threads[t].args.loop)
    /\ constructed' = constructed + 1
    /\ threads' = [threads EXCEPT ![t].pc = "release"]
    /\ UNCHANGED <<self, _doc, collection, issued, calls, result, synced, env,
                   connections, databases, clients, _lock, steps, passes, tasks, heap>>

\* MongoDBManagerMeta.__call__: the with block left.
lock_release(t) ==
    /\ threads[t].pc = "release"
    /\ _lock' = None
    /\ threads' = [threads EXCEPT ![t].pc = "return"]
    /\ UNCHANGED <<self, _doc, collection, issued, calls, result, synced, env,
                   registry, steps, passes, tasks, heap>>

\* MongoDBManagerMeta.__call__: "return cls._instance".
thread_return(t) ==
    /\ threads[t].pc = "return"
    /\ threads' = [threads EXCEPT ![t].pc = "done", ![t].returned = _instance]
    /\ UNCHANGED <<self, _doc, collection, issued, calls, result, synced, env,
                   registry, _lock, steps, passes, tasks, heap>>

\* get_db_manager() called by any thread at any moment.
get_db_manager_call ==
    /\ result' = outcome("get_db_manager", None, "", get_db_manager)
    /\ calls' = <<>>
    /\ UNCHANGED <<self, _doc, collection, issued, synced, env, registry, apart>>

\* The documents the encoder and the decoder are applied to: those of
\* tests/decoders/mongodb.py and tests/encoders/mongodb.py, a mapping with
\* both identity keys, a decoded document, plain documents with no identity
\* key, a mapping in a list in a list, and members of ValueTypesEnum.
Documents ==
    LET user(n, name) == Dict([_id |-> ObjectId(n), username |-> Str(name)])
    IN  {user(1, "test"),
         Dict([_id |-> ObjectId(1), title |-> Str("Test"),
               author |-> user(2, "test"),
               contributors |-> List(<<user(3, "test1"), user(4, "test2")>>)]),
         Dict([_id |-> ObjectId(1), username |-> Str("test"),
               nested |-> List(<<Str("A"), Str("B"), Str("C")>>)]),
         Dict([id |-> ObjectId(2), _id |-> ObjectId(1), username |-> Str("test")]),
         Dict([_id |-> ObjectId(1),
               author |-> Dict([id |-> ObjectId(5), _id |-> ObjectId(2)])]),
         Dict([id |-> ObjectId(1), username |-> Str("test")]),
         Dict([username |-> Str("test"), age |-> IntV(10)]),
         Dict([title |-> Str("Test"), profile |-> Dict([city |-> Str("x")]),
               nested |-> List(<<Str("A")>>)]),
         Dict([_id |-> ObjectId(1), matrix |-> List(<<List(<<user(2, "test")>>)>>)]),
         Dict([username |-> Str("test"), type |-> EnumMember("Admin")]),
         Dict([title |-> Str("test"),
               author |-> Dict([username |-> Str("test"), type |-> EnumMember("Admin")]),
               contributors |-> List(<<Dict([type |-> EnumMember("Reader")]),
                                       List(<<EnumMember("Admin")>>)>>)]),
         List(<<EnumMember("Admin"), Str("A"), Decimal("13.37")>>),
         Dict([amount |-> Decimal("13.37"),
               prices |-> List(<<Decimal("13.37"), IntV(1)>>),
               nested |-> Dict([amount |-> Decimal("13.37")])]),
         Dict([type |-> EnumMember("Reader"), amount |-> Decimal("13.37")]),
         Dict([price |-> EnumMember("Price")]),
         Dict([alias |-> EnumMember("Alias")]),
         Dict([roles |-> EnumMember("Roles"), prices |-> EnumMember("Prices")])}

\* The document the next pass is applied to.
last_step == steps[Len(steps)]

\* What a pass returned is the document of the next one.
pass(name, returned) ==
    /\ Len(passes) < MaxPasses
    /\ steps' = Append(steps, returned)
    /\ passes' = Append(passes, name)
    /\ UNCHANGED <<self, _doc, collection, issued, calls, result, synced, env,
                   registry, threads, _lock, tasks, heap>>

\* BaseMongoDBEncoder()(data)
encode ==
    /\ IsDict(last_step)
    /\ pass("encode", BaseMongoDBEncoder(last_step))

\* _convert_enums(data)
convert_enums ==
    /\ IsDict(last_step) \/ IsList(last_step)
    /\ pass("_convert_enums", _convert_enums(last_step))

\* _convert_decimals(data)
convert_decimals ==
    /\ IsDict(last_step) \/ IsList(last_step)
    /\ pass("_convert_decimals", _convert_decimals(last_step))

\* BaseMongoDBDecoder()(data)
decode ==
    /\ IsDict(last_step)
    /\ pass("decode", BaseMongoDBDecoder(last_step))

\* The document as the store returns it after it was encoded and inserted
\* into an empty collection.
read_back(data, oid) ==
    collection_find_one(collection_insert_one(<<>>, BaseMongoDBEncoder(data), oid),
                        Dict([_id |-> oid]))

\* The document encoded, inserted and read back from the store, which
\* writes no enum member and no Decimal.
write_read ==
    /\ IsDict(last_step)
    /\ "_id" \notin Keys(last_step)
    /\ encodable(BaseMongoDBEncoder(last_step))
    /\ pass("write_read", read_back(last_step, ObjectId(9)))

\* The store starts or stops losing requests or replies.
set_fault ==
    /\ \E f \in Faults : f # fault /\ fault' = f
    /\ UNCHANGED <<self, _doc, collection, issued, calls, result, synced,
                   Config, hook, registry, apart>>

(***************************************************************************)
(* Specifications                                                          *)
(***************************************************************************)
\* One instance at a time, from construction through its lifecycle.
Next ==
    \/ construct
    \/ set_field
    \/ save
    \/ reload
    \/ \E fields \in UpdateInputs : update(fields)
    \/ delete

Spec == Init /\ [][Next]_vars

\* An instance through its lifecycle, with a caller that also unsets its id.
NextId ==
    \/ construct
    \/ save
    \/ reload
    \/ \E fields \in UpdateInputs : update(fields)
    \/ delete
    \/ clear_id

SpecId == Init /\ [][NextId]_vars

\* The class-level operations over the collection.
NextQuery ==
    \/ \E documents \in BulkInputs : bulk_create(documents)
    \/ \E query \in Queries : find_one(query)
    \/ \E query \in Queries : find_many(query)
    \/ \E query \in Queries, fields \in UpdateManyFields : update_many(query, fields)

SpecQuery == Init /\ [][NextQuery]_vars

\* A model class with any of the hooks, one instance of it, and the
\* operations that write.
InitHook ==
    /\ InitModel
    /\ InitIdle
    /\ self = new_model(Str("a"), None, EnumMember("Admin"), Decimal("13.37"))
    /\ Config = UserConfig
    /\ hook \in Hooks
    /\ fault = "none"
    /\ init_test_db

NextHook ==
    \/ save
    \/ \E fields \in UpdateInputs : update(fields)
    \/ \E query \in Queries, fields \in UpdateManyFields : update_many(query, fields)
    \/ \E documents \in BulkInputs : bulk_create(documents)

SpecHook == InitHook /\ [][NextHook]_vars

\* A model class whose collection does not resolve: its Config lacks the
\* alias or the collection name, or names an alias the registry has not, or
\* no manager was constructed.
Unresolved ==
    {[Config |-> Dict([database |-> None, collection |-> Str("test_user")]), manager |-> TRUE],
     [Config |-> Dict([database |-> Str("default"), collection |-> None]), manager |-> TRUE],
     [Config |-> Dict([database |-> Str("unconfigured"), collection |-> Str("test_user")]),
      manager |-> TRUE],
     [Config |-> UserConfig, manager |-> FALSE]}

InitConfig ==
    /\ InitModel
    /\ InitIdle
    /\ hook = "default"
    /\ fault = "none"
    /\ \E u \in Unresolved :
            /\ Config = u.Config
            /\ IF u.manager THEN init_test_db
               ELSE /\ _instance = None
                    /\ connections = NoEntries
                    /\ databases = NoEntries
                    /\ clients = 0
                    /\ constructed = 0

NextConfig ==
    \/ construct
    \/ set_field
    \/ save
    \/ reload
    \/ \E fields \in UpdateInputs : update(fields)
    \/ delete
    \/ \E query \in Queries : find_one(query)
    \/ \E query \in Queries : find_many(query)
    \/ \E query \in Queries, fields \in UpdateManyFields : update_many(query, fields)
    \/ \E documents \in BulkInputs : bulk_create(documents)

SpecConfig == InitConfig /\ [][NextConfig]_vars

\* One instance over a store whose round trips can fail.
NextFault ==
    \/ save
    \/ reload
    \/ \E fields \in UpdateInputs : update(fields)
    \/ delete
    \/ set_fault

SpecFault == Init /\ [][NextFault]_vars

\* The registry from before the first construction.
InitRegistry ==
    /\ InitModel
    /\ InitIdle
    /\ Config = UserConfig
    /\ hook = "default"
    /\ fault = "none"
    /\ _instance = None
    /\ connections = NoEntries
    /\ databases = NoEntries
    /\ clients = 0
    /\ constructed = 0

NextRegistry ==
    \/ manager_call
    \/ init_connections
    \/ manager_getitem

SpecRegistry == InitRegistry /\ [][NextRegistry]_vars

\* Threads constructing managers at the same time, from before the first
\* construction.
NextThreads ==
    \/ \E t \in Threads : thread_call(t)
    \/ \E t \in Threads : lock_acquire(t)
    \/ \E t \in Threads : instance_test(t)
    \/ \E t \in Threads : instance_create(t)
    \/ \E t \in Threads : lock_release(t)
    \/ \E t \in Threads : thread_return(t)
    \/ get_db_manager_call

\* No manager constructed yet, every thread outside MongoDBManager(...).
InitThreads ==
    /\ InitRegistry
    /\ self = new_model(Str("a"), None, EnumMember("Admin"), Decimal("13.37"))

SpecThreads == InitThreads /\ [][NextThreads]_vars

\* An instance serialized in every state of its lifecycle, and with
\* snapshots its caller assigns.
NextDict ==
    \/ save
    \/ delete
    \/ setattr__doc
    \/ dict_call

SpecDict == Init /\ [][NextDict]_vars

\* One new instance and the tasks that save it, each suspended at its
\* round trip to the store while the others run.
NextTasks ==
    \/ \E t \in Tasks : save_insert_sent(t)
    \/ \E t \in Tasks : save_insert_returned(t)
    \/ save

SpecTasks == Init /\ [][NextTasks]_vars

\* A document before any pass.
InitCodec ==
    /\ InitModel
    /\ self = new_model(Str("a"), None, EnumMember("Admin"), Decimal("13.37"))
    /\ InitEnv
    /\ threads = [t \in Threads |-> [pc |-> "idle", args |-> None, returned |-> None]]
    /\ _lock = None
    /\ \E d \in Documents : steps = <<d>>
    /\ passes = <<>>
    /\ tasks = [t \in Tasks |-> [pc |-> "idle", oid |-> None, order |-> None]]
    /\ heap = <<>>

\* The encoder, its two passes, the decoder and the store applied to a
\* document in any order.
NextCodec ==
    \/ encode
    \/ convert_enums
    \/ convert_decimals
    \/ decode
    \/ write_read

SpecCodec == InitCodec /\ [][NextCodec]_vars

\* The structures whose objects the encoder and the decoder are applied
\* to: those of tests/encoders/mongodb.py and tests/decoders/mongodb.py,
\* an empty mapping and an empty list, a mapping that holds them, a list
\* in a list, and members whose value is a list or a mapping.
Structures ==
    LET user(name, member) == Items(<<(<<"username", Str(name)>>), (<<"type", member>>)>>)
    IN  {user("test", EnumMember("Admin")),
         List(<<user("test", EnumMember("Admin")), user("test", EnumMember("Reader"))>>),
         Items(<<(<<"title", Str("test")>>),
                 (<<"author", user("test", EnumMember("Admin"))>>)>>),
         Items(<<(<<"title", Str("test")>>),
                 (<<"contributors", List(<<user("test", EnumMember("Admin")),
                                           user("test", Str("reader"))>>)>>)>>),
         Items(<<(<<"_id", ObjectId(1)>>), (<<"username", Str("test")>>),
                 (<<"nested", List(<<Str("A"), Str("B"), Str("C")>>)>>)>>),
         Items(<<(<<"username", Str("test")>>), (<<"id", ObjectId(1)>>),
                 (<<"amount", Decimal("13.37")>>)>>),
         Items(<<>>),
         List(<<>>),
         Items(<<(<<"roles", EnumMember("Roles")>>), (<<"prices", EnumMember("Prices")>>),
                 (<<"nested", List(<<>>)>>), (<<"author", Items(<<>>)>>)>>),
         Items(<<(<<"_id", ObjectId(1)>>),
                 (<<"matrix", List(<<List(<<Items(<<(<<"_id", ObjectId(2)>>)>>)>>)>>)>>)>>)}

\* The object the next pass is applied to.
last_object == steps[Len(steps)]

\* What a pass returned is the object of the next one.
pass_objects(name, made) ==
    /\ Len(passes) < MaxPasses
    /\ heap' = made.heap
    /\ steps' = Append(steps, made.ret)
    /\ passes' = Append(passes, name)
    /\ UNCHANGED <<self, _doc, collection, issued, calls, result, synced, env,
                   registry, threads, _lock, tasks>>

\* _convert_enums(data)
convert_enums_objects ==
    /\ IsRef(last_object)
    /\ pass_objects("_convert_enums",
                    _recursive_iterator_objects(heap, last_object, "enum_to_value"))

\* _convert_decimals(data)
convert_decimals_objects ==
    /\ IsRef(last_object)
    /\ pass_objects("_convert_decimals",
                    _recursive_iterator_objects(heap, last_object,
                                                "python_decimal_to_bson_decimal"))

\* BaseMongoDBEncoder()(data)
encode_objects ==
    /\ heap[last_object.ref].kind = "dict"
    /\ pass_objects("encode", BaseMongoDBEncoder_objects(heap, last_object))

\* BaseMongoDBDecoder()(data)
decode_objects ==
    /\ heap[last_object.ref].kind = "dict"
    /\ pass_objects("decode", BaseMongoDBDecoder_objects(heap, last_object))

\* A structure of the caller's before any pass.
InitObjects ==
    /\ InitModel
    /\ self = new_model(Str("a"), None, EnumMember("Admin"), Decimal("13.37"))
    /\ InitEnv
    /\ threads = [t \in Threads |-> [pc |-> "idle", args |-> None, returned |-> None]]
    /\ _lock = None
    /\ \E d \in Structures :
            /\ heap = new_object(<<>>, d).heap
            /\ steps = <<new_object(<<>>, d).ret>>
    /\ passes = <<>>
    /\ tasks = [t \in Tasks |-> [pc |-> "idle", oid |-> None, order |-> None]]

\* The passes of the encoder, the encoder and the decoder applied to the
\* caller's object and to what they returned, in any order.
NextObjects ==
    \/ convert_enums_objects
    \/ convert_decimals_objects
    \/ encode_objects
    \/ decode_objects

SpecObjects == InitObjects /\ [][NextObjects]_vars

(***************************************************************************)
(* What the claims speak of                                                *)
(***************************************************************************)
id_of(model) == Get(model, "id")

Transient == id_of(self) = None /\ _doc = EmptyDict
Persisted == id_of(self) # None /\ _doc # EmptyDict
Deleted == id_of(self) # None /\ _doc = EmptyDict

\* The calls to the store among the calls of an operation.
store_calls(cs) == SelectSeq(cs, LAMBDA c : c.call \in StoreCalls)
write_calls(cs) == SelectSeq(cs, LAMBDA c : c.call \in Writes)

\* The document the store holds for the instance's identity, None when it holds none.
stored(coll, model) == collection_find_one(coll, Dict([_id |-> id_of(model)]))

\* The fields other than id whose value differs from the one last synced.
changed == {k \in Fields \ {"id"} : self.dict[k] # Get(synced, k)}

\* The stored form of a field value: an enum member's value, a decimal as Decimal128.
stored_form(v) ==
    IF IsEnum(v) THEN UserTypesEnum[v.enum]
    ELSE IF IsDecimal(v) THEN Decimal128(v.decimal)
    ELSE v

RECURSIVE has_key(_, _)
\* Whether key k occurs in the value at any depth.
has_key(v, k) ==
    IF IsDict(v) THEN k \in Keys(v) \/ \E j \in Keys(v) : has_key(v.dict[j], k)
    ELSE IF IsList(v) THEN \E i \in DOMAIN v.list : has_key(v.list[i], k)
    ELSE FALSE

C2_SaveUnchanged ==
    [][(save /\ Persisted /\ self = synced) =>
        /\ Len(write_calls(calls')) = 0
        /\ _doc' = _doc]_vars

\* C3: save() of a Persisted instance exactly one field of which changed since the
\* last save issues one update setting exactly that field, merges that field into the
\* snapshot and leaves the id and the rest of the snapshot unchanged.
C3_SaveOneField ==
    [][(save /\ Persisted /\ synced # None /\ Cardinality(changed) = 1) =>
        LET k == CHOOSE f \in changed : TRUE
        IN  /\ Len(store_calls(calls')) = 1
            /\ store_calls(calls')[1].call = "update_one"
            /\ Keys(store_calls(calls')[1].data) = {k}
            /\ _doc' = Update(_doc, Dict(k :> stored_form(self.dict[k])))
            /\ id_of(self') = id_of(self)]_vars

\* C4: update(), reload() and delete() on an instance whose id is not set raise
\* ValueError, call the store not at all and leave fields, snapshot and store unchanged.
C4_MissingId ==
    [][(id_of(self) = None
            /\ (reload \/ delete \/ \E fields \in UpdateInputs : update(fields))) =>
        /\ result'.raised = "ValueError"
        /\ Len(store_calls(calls')) = 0
        /\ UNCHANGED <<self, _doc, collection>>]_vars

C4_Witness ==
    /\ result.op = "update"
    /\ result.raised = "ValueError"
    /\ id_of(self) = None
    /\ _doc # EmptyDict
    /\ Len(collection) > 0

\* C5 as stated: the instance is always Transient or Persisted; id set and
\* snapshot populated coincide.
C5_TwoStates == Transient \/ Persisted

\* C5 as amended: the instance is Transient, Persisted, or has its id set and an
\* empty snapshot, a state only delete() enters; a populated snapshot implies an id.
C5_ThreeStates ==
    /\ [](Transient \/ Persisted \/ Deleted)
    /\ [][(Deleted' /\ ~Deleted) => result'.op = "delete"]_vars

C5_Witness ==
    /\ Deleted
    /\ result.op = "delete"
    /\ result.value = IntV(1)

\* C6: a non-empty snapshot equals, in stored form, the document the store holds for
\* the instance's identity; it never holds values the store did not accept.
C6_SnapshotFromStore ==
    _doc # EmptyDict =>
        /\ stored(collection, self) # None
        /\ BaseMongoDBEncoder(Update(_doc, Dict([id |-> id_of(self)])))
                = BaseMongoDBDecoder(stored(collection, self))

\* C7: the filter find_one, find_many and update_many hand to the store has no
\* "id" key at any depth.
C7_IdRewritten ==
    result.op \in {"find_one", "find_many", "update_many"} =>
        \A i \in DOMAIN store_calls(calls) :
            ~has_key(store_calls(calls)[i].query, "id")

\* C8: update(fields) on a Persisted instance issues one find-and-update by identity
\* setting exactly the encoded fields given (of a model, those explicitly set); when
\* the store returns the document, the snapshot is merged with the decoded document,
\* the given fields of the instance have the given values and the others the store's.
C8_Update ==
    [][\A fields \in UpdateInputs : (Persisted /\ result'.op = "update" /\ update(fields)) =>
        LET given == IF fields.kind = "BaseModel"
                     THEN Only(fields.data, fields.fields_set) ELSE fields.data
            was == stored(collection, self)
            now == stored(collection', self)
            sent == store_calls(calls')
        IN  /\ Len(sent) = 1
            /\ sent[1].call = "find_one_and_update"
            /\ sent[1].query = Dict([_id |-> id_of(self)])
            /\ Keys(sent[1].data) = Keys(given)
            /\ \A k \in Keys(given) : sent[1].data.dict[k] = stored_form(given.dict[k])
            /\ result'.raised = ""
            /\ was # None =>
                /\ now = Update(was, sent[1].data)
                /\ _doc' = Update(_doc, BaseMongoDBDecoder(now))
                /\ id_of(self') = id_of(self)
                /\ \A k \in Keys(given) : self'.dict[k] = given.dict[k]
                /\ \A k \in Fields \ (Keys(given) \cup {"id"}) :
                        stored_form(self'.dict[k]) = Get(was, k)
            /\ was = None => UNCHANGED <<self, _doc, collection>>]_vars

C8_Witness ==
    /\ result.op = "update"
    /\ result.raised = ""
    /\ result.args = Dict([username |-> Str("b")])
    /\ stored(collection, self) # None
    /\ Get(self, "username") = Str("b")
    /\ Get(self, "age") = IntV(10)
    /\ Get(_doc, "username") = Str("b")
    /\ Get(_doc, "age") = IntV(10)

\* C9: reload() on a Persisted instance fetches by identity; when the document is
\* found the snapshot becomes the decoded document and the fields are refreshed from
\* it; when it is not, nothing is raised and id, fields and snapshot stay as they were.
C9_Reload ==
    [][(reload /\ Persisted) =>
        LET found == stored(collection, self)
            sent == store_calls(calls')
        IN  /\ Len(sent) = 1
            /\ sent[1].call = "find_one"
            /\ sent[1].query = Dict([_id |-> id_of(self)])
            /\ result'.raised = ""
            /\ UNCHANGED collection
            /\ found # None =>
                /\ _doc' = BaseMongoDBDecoder(found)
                /\ id_of(self') = Get(found, "_id")
                /\ \A k \in Fields \ {"id"} : stored_form(self'.dict[k]) = Get(found, k)
            /\ found = None => UNCHANGED <<self, _doc>>]_vars

C9_Witness ==
    /\ result.op = "reload"
    /\ result.raised = ""
    /\ Persisted
    /\ stored(collection, self) = None

\* C10: delete() on an instance with an id issues one delete by identity, empties the
\* snapshot whether or not a document was deleted, and returns the number of documents
\* deleted, 0 or 1; afterwards the store holds no document of that identity.
C10_Delete ==
    [][(delete /\ id_of(self) # None) =>
        LET sent == store_calls(calls')
        IN  /\ Len(sent) = 1
            /\ sent[1].call = "delete_one"
            /\ sent[1].query = Dict([_id |-> id_of(self)])
            /\ _doc' = EmptyDict
            /\ result'.raised = ""
            /\ result'.value \in {IntV(0), IntV(1)}
            /\ result'.value = IntV(Len(collection) - Len(collection'))
            /\ stored(collection', self) = None
            /\ UNCHANGED self]_vars

C10_Witness ==
    /\ result.op = "delete"
    /\ result.value = IntV(0)
    /\ _doc = EmptyDict
    /\ id_of(self) # None

(***************************************************************************)
(* The hook, the class-level writes, configuration and failure             *)
(***************************************************************************)
\* The operations that await the hook, and those of them that pass many=True.
HookedOps == {"save", "update", "update_many", "bulk_create"}
ManyOps == {"update_many", "bulk_create"}

\* The positions in cs of the calls of the hook, and of the writes.
hook_positions(cs) == {i \in DOMAIN cs : cs[i].call = "pre_save_validation"}
write_positions(cs) == {j \in DOMAIN cs : cs[j].call \in Writes}

\* The hook was called once, with the operation's many flag, it returned,
\* and every write of the operation came after it.
hook_preceded(op, cs) ==
    /\ Cardinality(hook_positions(cs)) = 1
    /\ \A i \in hook_positions(cs) :
            /\ cs[i].many = (op \in ManyOps)
            /\ \A j \in write_positions(cs) : cs[i].completed /\ i < j

wrote(call, d) ==
    CASE call.call \in {"insert_one", "insert_many", "update_many"} -> call.data = d
      [] call.call = "find_one_and_update" -> call.data = BaseMongoDBEncoder(d)
      [] call.call = "update_one" ->
            \A k \in Keys(call.data) : k \in Keys(d) /\ call.data.dict[k] = d.dict[k]
      [] OTHER -> TRUE

\* C12: the data save(), update(), update_many() and bulk_create() write is
\* the data the hook returned, not the data it was passed.
C12_HookDataWritten ==
    result.op \in HookedOps =>
        \A i \in hook_positions(calls) : \A j \in write_positions(calls) :
            calls[i].completed => wrote(calls[j], calls[i].data)

\* The submitted documents are all model instances, or all plain documents
\* of values the store can write.
plain_or_models(documents) ==
    \/ \A i \in DOMAIN documents : IsModel(documents[i])
    \/ \A i \in DOMAIN documents : IsDict(documents[i]) /\ encodable(documents[i])

\* The field values of a submitted document.
submitted(document) == IF IsModel(document) THEN document.model ELSE document

\* C13: bulk_create of N documents issues one insert of N documents and
\* returns N instances in the order submitted: the i-th has the field
\* values of the i-th submitted document, its id is the "_id" of the i-th
\* inserted document, and the id of its snapshot is its id.  For an empty
\* list it returns an empty list and writes nothing.
C13_BulkCreate ==
    (result.op = "bulk_create" /\ plain_or_models(result.args.list)) =>
        LET given == result.args.list
            n == Len(given)
            made == result.value.list
            sent == store_calls(calls)
            at == Len(collection) - n
        IN  /\ result.raised = ""
            /\ Len(made) = n
            /\ n = 0 => sent = <<>>
            /\ n > 0 =>
                /\ Len(sent) = 1
                /\ sent[1].call = "insert_many"
                /\ Len(sent[1].data.list) = n
                /\ at >= 0
                /\ \A i \in 1..n :
                    LET model == made[i].dict["model"]
                        snapshot == made[i].dict["_doc"]
                        document == collection[at + i]
                    IN  /\ id_of(model) = Get(document, "_id")
                        /\ id_of(model) = ObjectId(issued - n + i)
                        /\ Get(snapshot, "id") = id_of(model)
                        /\ \A k \in Keys(submitted(given[i])) \ {"id"} :
                            /\ stored_form(model.dict[k])
                                    = stored_form(submitted(given[i]).dict[k])
                            /\ Get(document, k) = stored_form(submitted(given[i]).dict[k])

\* Two documents were submitted and two instances came back in their order.
C13_Witness ==
    /\ result.op = "bulk_create"
    /\ result.raised = ""
    /\ Len(result.args.list) = 2
    /\ Len(result.value.list) = 2
    /\ Get(result.value.list[1].dict["model"], "username") = Str("b")
    /\ Get(result.value.list[2].dict["model"], "username") = Str("a")
    /\ id_of(result.value.list[2].dict["model"]) = ObjectId(issued)

\* C14: bulk_create accepts a list that mixes model instances and plain
\* mappings in any order, and every element is encoded before the insert.
C14_MixedEncoded ==
    result.op = "bulk_create" =>
        /\ result.raised = ""
        /\ \A j \in write_positions(calls) :
                /\ Len(calls[j].data.list) = Len(result.args.list)
                /\ \A i \in DOMAIN result.args.list :
                        calls[j].data.list[i]
                            = BaseMongoDBEncoder(submitted(result.args.list[i]))

\* C15: update_many issues one bulk update with the encoded query, then one
\* find with the same query, and returns what that find reads after the
\* update: exactly the documents that match the query once updated, in the
\* collection's order.
C15_UpdateMany ==
    result.op = "update_many" =>
        LET sent == store_calls(calls)
            q == BaseMongoDBEncoder(result.args)
            hits == SelectSeq(collection, LAMBDA d : Matches(d, q))
            found == result.value.list
        IN  /\ result.raised = ""
            /\ Len(sent) = 2
            /\ sent[1].call = "update_many"
            /\ sent[1].query = q
            /\ sent[2].call = "find"
            /\ sent[2].query = q
            /\ Len(found) = Len(hits)
            /\ \A i \in DOMAIN hits :
                    found[i].dict["_doc"] = BaseMongoDBDecoder(hits[i])

\* The update matched a document and moved it out of what the query
\* matches: the list returned is empty.
C15_Witness ==
    /\ result.op = "update_many"
    /\ store_calls(calls)[1].matched_count > 0
    /\ result.value = List(<<>>)

\* The operations that resolve the collection.
PersistenceOps ==
    {"save", "reload", "update", "delete", "find_one", "find_many",
     "update_many", "bulk_create"}

\* Config lacks the alias or the collection name.
unset == Get(Config, "database") = None \/ Get(Config, "collection") = None

\* Config names an alias the registry has no database for.
unresolved ==
    /\ ~unset
    /\ _instance # None
    /\ Get(Config, "database").str \notin DOMAIN databases

\* C16: with the alias or the collection name unset, and with an alias the
\* registry does not resolve, every operation that resolves the collection
\* fails with ValueError, calls the store for nothing and writes nothing;
\* with no manager constructed it fails the same way with RuntimeError.
C16_Unresolved ==
    result.op \in PersistenceOps =>
        /\ unset \/ unresolved => result.raised = "ValueError"
        /\ (~unset /\ _instance = None) => result.raised = "RuntimeError"
        /\ (unset \/ unresolved \/ _instance = None) =>
                /\ store_calls(calls) = <<>>
                /\ collection = <<>>
                /\ issued = 0
                /\ Transient

\* update_many failed on an alias the registry has not, after its hook.
C16_Witness ==
    /\ unresolved
    /\ result.op = "update_many"
    /\ result.raised = "ValueError"
    /\ hook_positions(calls) # {}

\* C17: the document save() inserts holds no key "id"; no stored document
\* holds both "_id" and "id".
C17_NoIdKey ==
    \A i \in DOMAIN collection : "id" \notin Keys(collection[i])

\* The operations of an instance that await the store.
RoundTrips == {"save", "reload", "update", "delete"}

\* C18: when the store round trip of save(), update(), reload() or delete()
\* raises or is cancelled, the operation raises after that one attempt and
\* the instance's id, fields and snapshot are what they were.
C18_RoundTripFails ==
    [][(/\ fault # "none"
        /\ result'.op \in RoundTrips
        /\ store_calls(calls') # <<>>
        /\ (save \/ reload \/ delete \/ \E fields \in UpdateInputs : update(fields)))
       => (/\ result'.raised = "StoreError"
           /\ Len(store_calls(calls')) = 1
           /\ self' = self
           /\ _doc' = _doc)]_vars

\* A delete whose reply was lost: the store holds no document of the
\* instance, which is as it was.
C18_Witness ==
    /\ fault = "lost_reply"
    /\ result.op = "delete"
    /\ result.raised = "StoreError"
    /\ Persisted
    /\ stored(collection, self) = None

\* The items of the settings of a construction whose alias is registered.
registered(args) ==
    {i \in DOMAIN args.database_settings :
        args.database_settings[i].alias \in DOMAIN databases}

\* C19 as stated: init_connections chained to a construction with settings
\* for a registered alias replaces the alias's database by one for the new
\* settings, the number of entries staying the same.
C19_HandleReplaced ==
    [][(result.op = "MongoDBManager" /\ init_connections)
       => \A i \in registered(result.args) :
            LET item == result.args.database_settings[i]
            IN  /\ databases'[item.alias] # databases[item.alias]
                /\ databases'[item.alias].name = db_name(item)
                /\ DOMAIN databases' = DOMAIN databases]_vars

\* C19 amended: init_connections chained to a construction with settings
\* for a registered alias leaves the alias's client and database as they
\* were, whatever the new settings, the number of entries staying the same.
C19_HandleKept ==
    [][(result.op = "MongoDBManager" /\ init_connections)
       => \A i \in registered(result.args) :
            LET item == result.args.database_settings[i]
            IN  /\ databases'[item.alias] = databases[item.alias]
                /\ connections'[item.alias] = connections[item.alias]
                /\ DOMAIN databases' = DOMAIN databases
                /\ DOMAIN connections' = DOMAIN connections]_vars

\* init_connections returned for settings that name another database for
\* "default", and the registered database is still the first one.
C19_Witness ==
    /\ result.op = "init_connections"
    /\ result.raised = ""
    /\ result.args # None
    /\ \E i \in DOMAIN result.args.database_settings :
            /\ result.args.database_settings[i].alias = "default"
            /\ db_name(result.args.database_settings[i]) = Str("other")
    /\ "default" \in DOMAIN databases
    /\ databases["default"].name = Str("test_mongo")

\* C20: once the registry has an entry, no construction and no
\* init_connections changes a client or a database or adds or removes an
\* entry, and init_connections returns the manager, itself unchanged.
C20_RegistryKept ==
    [][DOMAIN databases # {}
       => (/\ connections' = connections
           /\ databases' = databases
           /\ _instance' = _instance
           /\ result'.op = "init_connections" =>
                    result'.raised = "" /\ result'.value = Str("self"))]_vars

\* init_connections called again on the initialized manager, with no
\* construction in between.
C20_Witness ==
    /\ result.op = "init_connections"
    /\ result.args = None
    /\ result.raised = ""
    /\ _instance.is_init
    /\ DOMAIN databases = {"default", "second"}
    /\ clients = 2

\* C21: at most one manager is ever constructed; every construction, by
\* whichever thread and under whichever interleaving, returns that one
\* manager, which is never replaced; get_db_manager() returns it, and
\* returns nothing only while no manager was constructed.
C21_Singleton ==
    /\ [](/\ constructed <= 1
          /\ (constructed = 0) <=> (_instance = None)
          /\ \A t \in Threads :
                threads[t].pc = "done" =>
                    /\ threads[t].returned # None
                    /\ threads[t].returned = _instance)
    /\ [][_instance # None => _instance' = _instance]_vars
    /\ [][get_db_manager_call => result'.value = _instance]_vars

\* Two threads constructed managers with different arguments, and both
\* were returned the manager of one of them.
C21_Witness ==
    /\ \A t \in Threads : threads[t].pc = "done"
    /\ \E t, u \in Threads :
            /\ threads[t].args # threads[u].args
            /\ threads[t].returned = threads[u].returned
            /\ threads[u].returned = MongoDBManager(threads[u].args.database_settings,
                                                    threads[u].args.loop)
    /\ result.op = "get_db_manager"
    /\ result.value = _instance

\* The name the settings give the database of an alias: the configured
\* NAME, or the alias when no NAME is configured.
configured_name(settings, alias) ==
    LET configuration == settings[item_of(settings, alias)].configuration
    IN  IF "NAME" \in Keys(configuration) THEN Get(configuration, "NAME")
        ELSE Str(alias)

\* C22: on the initialized manager, the lookup of a configured alias
\* returns the database whose name is the alias's NAME, or the alias when
\* no NAME is configured; the lookup of an alias never configured returns
\* None, and no lookup raises.
C22_Lookup ==
    (result.op = "__getitem__" /\ _instance.is_init)
        => /\ result.raised = ""
           /\ IF result.args \in aliases(_instance.settings)
              THEN /\ result.value # None
                   /\ result.value.name = configured_name(_instance.settings, result.args)
              ELSE result.value = None

\* The lookup of "default", configured with a NAME, returned the database
\* of that name.
C22_Witness ==
    /\ result.op = "__getitem__"
    /\ _instance.is_init
    /\ result.args = "default"
    /\ result.value # None
    /\ result.value.name = Str("test_mongo")
    /\ "second" \in DOMAIN databases

\* C23: init_connections on a manager not yet initialized raises
\* RuntimeError, creates nothing and leaves the manager uninitialized when
\* the settings have no alias, and only then; for any other settings, an
\* alias with an empty configuration included, it returns the manager,
\* now initialized, with one new client and one database for each alias,
\* the database named by NAME or else after the alias.
C23_InitConnections ==
    [][(init_connections /\ ~_instance.is_init)
       => IF _instance.settings = <<>>
          THEN /\ result'.raised = "RuntimeError"
               /\ connections' = connections
               /\ databases' = databases
               /\ clients' = clients
               /\ ~_instance'.is_init
          ELSE /\ result'.raised = ""
               /\ result'.value = Str("self")
               /\ _instance'.is_init
               /\ clients' = clients + Cardinality(aliases(_instance.settings))
               /\ DOMAIN connections' = aliases(_instance.settings)
               /\ DOMAIN databases' = aliases(_instance.settings)
               /\ \A a \in aliases(_instance.settings) :
                    /\ databases'[a].name = configured_name(_instance.settings, a)
                    /\ databases'[a].client = connections'[a]]_vars

\* init_connections returned for settings whose one alias has an empty
\* configuration: one client, one database named after the alias.
C23_Witness ==
    /\ result.op = "init_connections"
    /\ result.raised = ""
    /\ _instance.is_init
    /\ _instance.settings = <<[alias |-> "minimal", configuration |-> EmptyDict]>>
    /\ clients = 1
    /\ DOMAIN connections = {"minimal"}
    /\ DOMAIN databases = {"minimal"}
    /\ databases["minimal"].name = Str("minimal")

\* The passes applied so far: each with the document it was given and the
\* document it returned.
applications ==
    {[name |-> passes[i], given |-> steps[i], returned |-> steps[i + 1]] :
        i \in DOMAIN passes}

RECURSIVE enums_replaced(_)
\* The value with every enum member that is a mapping value or a list
\* element, at any depth, replaced by the member's value, the members in a
\* mapping or a list that replaced a member included.
enums_replaced(v) ==
    LET one(x) ==
            LET y == IF IsEnum(x) THEN (UserTypesEnum @@ ValueTypesEnum)[x.enum] ELSE x
            IN  IF IsDict(y) \/ IsList(y) THEN enums_replaced(y) ELSE y
    IN  IF IsDict(v) THEN Dict([k \in Keys(v) |-> one(v.dict[k])])
        ELSE IF IsList(v) THEN List([i \in DOMAIN v.list |-> one(v.list[i])])
        ELSE v

RECURSIVE values_in(_)
\* The mapping values and list elements of v at every depth.
values_in(v) ==
    IF IsDict(v)
    THEN UNION {{v.dict[k]} \cup values_in(v.dict[k]) : k \in Keys(v)}
    ELSE IF IsList(v)
    THEN UNION {{v.list[i]} \cup values_in(v.list[i]) : i \in DOMAIN v.list}
    ELSE {}

normalized(v) == \A x \in values_in(v) : ~IsEnum(x) /\ ~IsDecimal(x)

\* C25: encode returns what the decimal pass makes of what the enum pass
\* makes of its input, and what it returns has no enum member and no
\* Decimal at any depth, whatever the values of the enum members are.
C25_Normalized ==
    \A a \in applications :
        a.name = "encode" =>
            /\ a.returned = _convert_decimals(_convert_enums(a.given))
            /\ normalized(a.returned)

\* C26: encode returns a document with no enum member and no Decimal as
\* it was given, and returns what encode returned as it was given.
C26_Idempotent ==
    /\ \A a \in applications :
            (a.name = "encode" /\ normalized(a.given)) => a.returned = a.given
    /\ \A i \in DOMAIN passes :
            (i + 1 \in DOMAIN passes /\ passes[i] = "encode" /\ passes[i + 1] = "encode")
                => steps[i + 2] = steps[i + 1]

\* A list of scalars, or a scalar.
scalars(v) ==
    /\ ~IsDict(v)
    /\ IsList(v) => \A i \in DOMAIN v.list : ~IsDict(v.list[i]) /\ ~IsList(v.list[i])

\* C27: what decode returns has no "_id" key at any depth and has the
\* document's "_id" under "id"; scalars and lists of scalars are returned
\* as they were.
C27_Renamed ==
    \A a \in applications :
        a.name = "decode" =>
            /\ ~has_key(a.returned, "_id")
            /\ Get(a.returned, "id") = Get(a.given, "_id")
            /\ \A k \in Keys(a.given) \ {"id", "_id"} :
                    scalars(a.given.dict[k]) => Get(a.returned, k) = a.given.dict[k]

\* The mapping decoded to out had both identity keys, and out has "id"
\* alone, with the value the mapping had under "_id".
store_id_wins(mapping, out) ==
    {"id", "_id"} \subseteq Keys(mapping)
        => /\ "id" \in Keys(out)
           /\ "_id" \notin Keys(out)
           /\ out.dict["id"] = mapping.dict["_id"]

\* C28: a mapping decode is applied to, the document or a sub-document,
\* that holds both "id" and "_id" is returned with "id" alone, whose value
\* is the one the mapping had under "_id".
C28_StoreIdWins ==
    \A a \in applications :
        a.name = "decode" =>
            /\ store_id_wins(a.given, a.returned)
            /\ \A k \in Keys(a.given) \ {"id", "_id"} :
                    IsDict(a.given.dict[k])
                        => store_id_wins(a.given.dict[k], a.returned.dict[k])

\* decode was applied to a document with different values under "id" and
\* "_id", and returned the value of "_id" under "id".
C28_Witness ==
    \E a \in applications :
        /\ a.name = "decode"
        /\ {"id", "_id"} \subseteq Keys(a.given)
        /\ a.given.dict["id"] = ObjectId(2)
        /\ a.given.dict["_id"] = ObjectId(1)
        /\ a.returned = Dict([id |-> ObjectId(1), username |-> Str("test")])

\* A document the store can write, with no identity key at any depth.
plain(v) == encodable(v) /\ ~has_key(v, "id") /\ ~has_key(v, "_id")

\* C29: a plain document written to the store, read back and decoded is
\* the document with the identity the store issued under "id" at the top
\* level, and nothing else added, removed or changed at any depth.
C29_RoundTrip ==
    \A i \in DOMAIN passes :
        (/\ i + 1 \in DOMAIN passes
         /\ passes[i] = "write_read"
         /\ passes[i + 1] = "decode"
         /\ plain(steps[i]))
            => steps[i + 2] = Update(steps[i], Dict([id |-> Get(steps[i + 1], "_id")]))

\* The documents of the collection the encoded filter matches, in the
\* collection's order.
matching(query) ==
    SelectSeq(collection, LAMBDA d : Matches(d, BaseMongoDBEncoder(query)))

\* C30: find_one raises nothing and returns None when no document
\* matches; when one does, it returns an instance whose snapshot is the
\* decoded first match and whose id is that document's "_id"; find_many
\* returns one instance for each match, its snapshot the decoded document.
C30_Found ==
    /\ result.op = "find_one" =>
            /\ result.raised = ""
            /\ IF matching(result.args) = <<>>
               THEN result.value = None
               ELSE LET first == matching(result.args)[1]
                    IN  /\ result.value.dict["_doc"] = BaseMongoDBDecoder(first)
                        /\ id_of(result.value.dict["model"]) = first.dict["_id"]
    /\ result.op = "find_many" =>
            /\ result.raised = ""
            /\ Len(result.value.list) = Len(matching(result.args))
            /\ \A i \in DOMAIN result.value.list :
                    result.value.list[i].dict["_doc"]
                        = BaseMongoDBDecoder(matching(result.args)[i])

\* find_one by username matched the second of two stored documents and
\* returned it with the id the store issued.
C30_Witness ==
    /\ result.op = "find_one"
    /\ result.args = Dict([username |-> Str("a")])
    /\ Len(collection) >= 2
    /\ Get(collection[1], "username") = Str("b")
    /\ result.value # None
    /\ id_of(result.value.dict["model"]) = ObjectId(2)
    /\ Get(result.value.dict["_doc"], "id") = ObjectId(2)

\* C31: what dict() returns never has the key "_doc", whatever the state
\* of the instance and the exclude set, and is the fields less the
\* excluded ones; assigning the snapshot changes no serialization.
C31_SnapshotExcluded ==
    /\ [](result.op = "dict"
            => /\ "_doc" \notin Keys(result.value)
               /\ result.value = Without(self, result.args))
    /\ [][setattr__doc
            => \A exclude \in ExcludeInputs :
                    dict(__dict__(self', _doc'), exclude)
                        = dict(__dict__(self, _doc), exclude)]_vars

\* dict() of a saved instance, called with an exclude set of its own.
C31_Witness ==
    /\ result.op = "dict"
    /\ result.args = {"id"}
    /\ Persisted
    /\ Keys(result.value) = Fields \ {"id"}

\* The documents of the collection with the identity oid.
documents_of(oid) == {i \in DOMAIN collection : Get(collection[i], "_id") = oid}

\* C32: when two tasks call save() on the one instance with no id and
\* both are suspended at the insert, both have issued an insert and the
\* store has a document for each; each insert that returns gives the
\* instance and its snapshot the identity of that insert, so the instance
\* ends with the identity of the insert that returned last.
C32_ConcurrentSave ==
    /\ []((\A t \in Tasks : tasks[t].pc \in {"inserting", "done"})
            => /\ \A t \in Tasks : Cardinality(documents_of(tasks[t].oid)) = 1
               /\ \A t, u \in Tasks : t # u => tasks[t].oid # tasks[u].oid
               /\ Len(collection) >= Cardinality(Tasks))
    /\ [][\A t \in Tasks :
            save_insert_returned(t)
                => /\ id_of(self') = tasks[t].oid
                   /\ Get(_doc', "id") = tasks[t].oid]_vars

\* Both tasks were suspended at the insert together; the task that sent
\* its insert first resumed last, and the instance has its identity while
\* the store holds two documents.
C32_Witness ==
    /\ \A t \in Tasks : tasks[t].pc = "done"
    /\ tasks["first"].oid = ObjectId(1)
    /\ tasks["second"].oid = ObjectId(2)
    /\ tasks["first"].order = IntV(2)
    /\ id_of(self) = ObjectId(1)
    /\ Len(collection) = 2
    /\ collection[1].dict["username"] = collection[2].dict["username"]

\* C33: the snapshot holds no enum member and no Decimal in any state.
C33_SnapshotEncoded == normalized(_doc)

\* The non-identity fields of the instance, encoded.
encoded_fields == _encode_model_to_mongo(self, {"id"})

\* C34 as stated: save() of an instance that was deleted issues one
\* update by its identity that carries all non-identity fields, issues no
\* insert, and leaves the store as it is.
C34_AllFields ==
    [][(Deleted /\ save)
       => /\ Len(store_calls(calls')) = 1
          /\ store_calls(calls')[1].call = "update_one"
          /\ store_calls(calls')[1].query = by_id(self)
          /\ store_calls(calls')[1].data = encoded_fields
          /\ collection' = collection]_vars

\* C34 as amended: save() of an instance that was deleted issues one
\* update by its identity that carries the non-identity fields whose
\* encoded value is not None, issues no insert, and leaves the store as
\* it is; no save() of an instance whose id is set issues an insert.
C34_SetFields ==
    /\ [][(Deleted /\ save)
          => /\ Len(store_calls(calls')) = 1
             /\ store_calls(calls')[1].call = "update_one"
             /\ store_calls(calls')[1].query = by_id(self)
             /\ store_calls(calls')[1].data
                    = Only(encoded_fields,
                           {k \in Keys(encoded_fields) : encoded_fields.dict[k] # None})
             /\ collection' = collection
             /\ id_of(self') = id_of(self)]_vars
    /\ [][(id_of(self) # None /\ save)
          => \A i \in DOMAIN store_calls(calls') :
                store_calls(calls')[i].call # "insert_one"]_vars

\* save() after delete() of an instance whose age is None: the update
\* carried the other fields, and the store has no document for it.
C34_Witness ==
    /\ result.op = "save"
    /\ Len(store_calls(calls)) = 1
    /\ store_calls(calls)[1].call = "update_one"
    /\ Keys(store_calls(calls)[1].data) = {"username", "type", "amount"}
    /\ Get(self, "age") = None
    /\ id_of(self) # None
    /\ stored(collection, self) = None
    /\ Keys(_doc) = {"username", "type", "amount"}

\* update() or reload() returned having found the document.
refreshed ==
    /\ result.op \in {"update", "reload"}
    /\ result.raised = ""
    /\ stored(collection, self) # None

\* C35 as stated: after update() or reload() found the document, every
\* field of the instance equals the snapshot's value under its key, or its
\* default when the snapshot has no such key.
C35_FieldsAreSnapshot ==
    refreshed =>
        \A k \in Fields :
            self.dict[k] = IF k \in Keys(_doc) THEN _doc.dict[k] ELSE field_default(k)

\* C35 as amended: after update() or reload() found the document, the id
\* equals the snapshot's id and every other field is what the model's
\* validation makes of the snapshot's value under its key (the enum member
\* of the stored value, the Decimal of the stored decimal), or its default
\* when the snapshot has no such key; the stored document has the same
\* values, so nothing local is left.
C35_FieldsFromSnapshot ==
    refreshed =>
        /\ id_of(self) = Get(_doc, "id")
        /\ \A k \in Fields \ {"id"} :
                /\ self.dict[k] = IF k \in Keys(_doc) THEN validate(k, _doc.dict[k])
                                  ELSE field_default(k)
                /\ stored_form(self.dict[k]) = Get(stored(collection, self), k)

\* update() of the username alone returned: the instance has the enum
\* member of the value the snapshot holds.
C35_Witness ==
    /\ refreshed
    /\ result.op = "update"
    /\ Keys(result.args) = {"username"}
    /\ Get(self, "type") = EnumMember("Admin")
    /\ Get(_doc, "type") = Str("admin")
    /\ Get(self, "username") = result.args.dict["username"]

\* C36: update() of an instance with no id raises ValueError with no call
\* made: the hook was not invoked and the collection was not resolved.
C36_IdBeforeHook ==
    (result.op = "update" /\ not_id(self))
        => /\ result.raised = "ValueError"
           /\ calls = <<>>

\* C37: the first construction gives the manager its settings and its
\* loop, the running loop when none is passed; no later construction and
\* no init_connections changes them; init_connections of a manager whose
\* settings are empty raises RuntimeError every time.
C37_FirstSettings ==
    /\ [][(_instance = None /\ manager_call)
          => /\ _instance'.settings = result'.args.database_settings
             /\ _instance'._loop = IF result'.args.loop = None THEN get_running_loop
                                   ELSE result'.args.loop]_vars
    /\ [][_instance # None
          => /\ _instance'.settings = _instance.settings
             /\ _instance'._loop = _instance._loop]_vars
    /\ []((result.op = "init_connections" /\ _instance.settings = <<>>)
            => /\ result.raised = "RuntimeError"
               /\ ~_instance.is_init
               /\ DOMAIN databases = {})

\* init_connections chained to a construction with settings raised
\* RuntimeError on the manager first constructed with none.
C37_Witness ==
    /\ result.op = "init_connections"
    /\ result.raised = "RuntimeError"
    /\ result.args # None
    /\ result.args.database_settings = DATABASE_SETTING
    /\ result.args.loop = Str("custom_event_loop")
    /\ _instance.settings = <<>>
    /\ _instance._loop = get_running_loop

\* C38: decode returns what decode returned as it was given, and a
\* document that holds id and no _id keeps its id when it is decoded.
C38_DecodeIdempotent ==
    /\ \A i \in DOMAIN passes :
            (i + 1 \in DOMAIN passes /\ passes[i] = "decode" /\ passes[i + 1] = "decode")
                => steps[i + 2] = steps[i + 1]
    /\ \A a \in applications :
            (a.name = "decode" /\ "id" \in Keys(a.given) /\ "_id" \notin Keys(a.given))
                => Get(a.returned, "id") = Get(a.given, "id")

\* The transform that a pass of the encoder gives _recursive_iterator.
transform_of(name) ==
    IF name = "_convert_enums" THEN "enum_to_value" ELSE "python_decimal_to_bson_decimal"

\* returned has the shape of given: a mapping for a mapping, with the same
\* keys in the same order, a list of the same length for a list; at each
\* place it has the transform of what given has there, and when that is a
\* mapping or a list, something of its shape.
RECURSIVE same_shape(_, _, _)
same_shape(given, returned, name) ==
    LET leaf(x, y) ==
            LET t == items_of(transform_func(name, x))
            IN  IF IsItems(t) \/ IsList(t) THEN same_shape(t, y, name) ELSE y = t
    IN  IF IsItems(given)
        THEN /\ IsItems(returned)
             /\ Len(returned.items) = Len(given.items)
             /\ \A i \in DOMAIN given.items :
                    /\ returned.items[i][1] = given.items[i][1]
                    /\ leaf(given.items[i][2], returned.items[i][2])
        ELSE /\ IsList(returned)
             /\ Len(returned.list) = Len(given.list)
             /\ \A i \in DOMAIN given.list : leaf(given.list[i], returned.list[i])

\* C39: what _recursive_iterator returns has the shape of what it was
\* given, with the transform applied at every place and the mappings and
\* lists the transform produced walked in turn; an empty mapping or list
\* comes back as an empty mapping or list.
C39_SameShape ==
    \A i \in DOMAIN passes :
        passes[i] \in {"_convert_enums", "_convert_decimals"} =>
            LET given == structure_of(heap, steps[i])
                returned == structure_of(heap, steps[i + 1])
            IN  /\ same_shape(given, returned, transform_of(passes[i]))
                /\ given \in {Items(<<>>), List(<<>>)} => returned = given

\* The enum pass of a mapping of four keys whose values are members with a
\* list and a mapping as value, an empty list and an empty mapping.
C39_Witness ==
    /\ passes = <<"_convert_enums">>
    /\ structure_of(heap, steps[1])
        = Items(<<(<<"roles", EnumMember("Roles")>>), (<<"prices", EnumMember("Prices")>>),
                  (<<"nested", List(<<>>)>>), (<<"author", Items(<<>>)>>)>>)
    /\ structure_of(heap, steps[2])
        = Items(<<(<<"roles", List(<<Str("admin"), Str("reader")>>)>>),
                  (<<"prices", Items(<<(<<"amount", Decimal("13.37")>>)>>)>>),
                  (<<"nested", List(<<>>)>>), (<<"author", Items(<<>>)>>)>>)

\* No object the caller has was changed by the step.
kept == \A a \in DOMAIN heap : heap'[a] = heap[a]

\* No object of what the step returned is an object the caller had.
newly_built == reachable(heap', last_object') \cap DOMAIN heap = {}

\* C40: a pass, encode or decode changes no mapping and no list that
\* existed before it, and no mapping and no list of what it returns
\* existed before it.
C40_Pure == [][kept /\ newly_built]_vars

====
